---- MODULE Spec2Model ----
(***************************************************************************)
(* Model of the test-generation service of AI-Code-Analysis-Agent:         *)
(*   app/services/test_executor_functions.py  (TestExecutorFunctions: the  *)
(*       tool operations and their dispatcher call_function)               *)
(*   app/services/test_generator.py  (TestGenerator: the function-calling  *)
(*       loop, the collection of the generated test code and the summary   *)
(*       of the execution log)                                             *)
(*                                                                         *)
(* Text is abstracted to tokens: a JSON string argument is a TLA+ string,  *)
(* a JSON value of another type is one of the tokens INT, LIST, OBJ, and   *)
(* the predicates the code evaluates on a text (a substring test, a        *)
(* regular expression, a length) are tables over the tokens.               *)
(***************************************************************************)
EXTENDS Integers, Sequences, FiniteSets, TLC

(***************************************************************************)
(* JSON values of tool arguments                                           *)
(***************************************************************************)
\* the argument is not given
ABSENT == "#absent"
\* a JSON number (non-zero) where the code expects text
INT == "#int"
\* a non-empty JSON array of strings
LIST == "#list"
\* a JSON object carrying an output-bearing key ("output")
OBJ == "#obj"
\* a JSON object without output-bearing key
OBJ_PLAIN == "#obj_plain"

IsStr(v) == v \notin {ABSENT, INT, LIST, OBJ, OBJ_PLAIN}

\* bool(v) of Python: the empty text is false, INT is a non-zero number
Truthy(v) == v \notin {"", ABSENT}

IsDict(v) == v \in {OBJ, OBJ_PLAIN}

\* every keyword a tool call may carry; "extra" is a keyword no operation declares
Fields ==
  {"code", "language", "file_path", "content", "command", "working_dir",
   "url", "method", "payload", "headers", "result", "expected_behavior", "extra"}

NoArgs == [k \in Fields |-> ABSENT]

\* the keywords present in a mapping
Given(f) == {k \in Fields : f[k] # ABSENT}

\* dict.get(key, default) of Python
Get(f, k, d) == IF f[k] = ABSENT THEN d ELSE f[k]

(***************************************************************************)
(* What the environment does with one operation                            *)
(*   outcome "ok":      exit status 0 / HTTP 2xx / file operation done     *)
(*   outcome "fail":    exit status # 0 / HTTP status outside [200,300)    *)
(*   outcome "timeout": subprocess.TimeoutExpired / requests Timeout       *)
(*   outcome "raise":   any other exception of the operation (OSError...)  *)
(*   outcome "missing": the file or working directory does not exist       *)
(***************************************************************************)
Outcomes == {"ok", "fail", "timeout", "raise", "missing"}

\* the side effects an operation can have on the outside
\*   spawn: a process was started;  http: an HTTP request was sent
\*   fs_write: a file was created or truncated;  fs_read: a file was opened
\*   temp_left: temp_exec.js is left behind in the working directory
Ops == {"spawn", "http", "fs_write", "fs_read", "temp_left"}

Ret(r, o) == [res |-> r, ops |-> o]

(***************************************************************************)
(* TestExecutorFunctions: the operations.  Each takes the bound arguments  *)
(* and what the environment does (env.outcome, for a process its           *)
(* env.stdout / env.stderr, for a file that is read its env.content), and  *)
(* gives the result mapping and the set of side effects it had.            *)
(***************************************************************************)
\* result of a subprocess of execute_code
ExecResult(env) ==
  CASE env.outcome = "ok" -> [success |-> TRUE, output |-> env.stdout, error |-> "None"]
    [] env.outcome = "fail" -> [success |-> FALSE, output |-> env.stdout, error |-> env.stderr]
    [] env.outcome = "timeout" -> [success |-> FALSE, output |-> "", error |-> "Execution timed out"]
    [] OTHER -> [success |-> FALSE, output |-> "", error |-> "exception"]

\* subprocess.run([python_executable, "-c", code]): a code that is no text is
\* refused by subprocess before any process exists
_execute_python_code(code, env) ==
  IF ~IsStr(code)
    THEN Ret([success |-> FALSE, output |-> "", error |-> "exception"], {})
    ELSE Ret(ExecResult(env), {"spawn"})

\* temp_exec.js is opened for writing first; it is removed only on the path
\* where the process returned
_execute_javascript_code(code, env) ==
  IF ~IsStr(code)
    THEN Ret([success |-> FALSE, output |-> "", error |-> "exception"],
             {"fs_write", "temp_left"})
    ELSE Ret(ExecResult(env),
             IF env.outcome \in {"ok", "fail"}
               THEN {"fs_write", "spawn"}
               ELSE {"fs_write", "spawn", "temp_left"})

execute_code(code, language, env) ==
  CASE language = "python" -> _execute_python_code(code, env)
    [] language \in {"javascript", "typescript", "js"} -> _execute_javascript_code(code, env)
    [] OTHER -> Ret([success |-> FALSE, output |-> "", error |-> "Unsupported language"], {})

\* the request's working directory (self.extracted_path) as path segments
RootDir == <<"/", "work", "req1">>

\* the path texts the model draws, split at the separators
Segments(path) ==
  CASE path = "../outside.txt" -> <<"..", "outside.txt">>
    [] path = "sub/../../outside.txt" -> <<"sub", "..", "..", "outside.txt">>
    [] path = "sub/../helpers.py" -> <<"sub", "..", "helpers.py">>
    [] path = "/srv/outside.txt" -> <<"/", "srv", "outside.txt">>
    [] path = "/srv" -> <<"/", "srv">>
    [] path = "../req2/helpers.py" -> <<"..", "req2", "helpers.py">>
    [] OTHER -> <<path>>

\* os.path.isabs
isabs(path) == Segments(path)[1] = "/"

\* os.path.join(a, path): an absolute second component discards the first
join(a, path) == IF isabs(path) THEN Segments(path) ELSE a \o Segments(path)

\* the file the operating system opens for a joined path: each ".." segment
\* leaves the directory named before it
RECURSIVE Resolve(_, _)
Resolve(segs, acc) ==
  IF segs = <<>> THEN acc
  ELSE IF Head(segs) = ".."
    THEN Resolve(Tail(segs), IF Len(acc) > 1 THEN SubSeq(acc, 1, Len(acc) - 1) ELSE acc)
    ELSE Resolve(Tail(segs), Append(acc, Head(segs)))

\* directory dir holds the file or directory named by segs
IsPrefix(dir, segs) == Len(dir) <= Len(segs) /\ SubSeq(segs, 1, Len(dir)) = dir

\* a result, its effects and the place in the file system they happened at
RetAt(r, o, where) == [res |-> r, ops |-> o, at |-> where]

read_file(file_path, env) ==
  CASE ~IsStr(file_path) ->
         Ret([success |-> FALSE, content |-> "", error |-> "exception"], {})
    [] env.outcome = "missing" ->
         RetAt([success |-> FALSE, content |-> "", error |-> "File not found"], {},
               join(RootDir, file_path))
    [] env.outcome = "ok" ->
         RetAt([success |-> TRUE, content |-> env.content, file_path |-> file_path],
               {"fs_read"}, join(RootDir, file_path))
    [] OTHER ->
         RetAt([success |-> FALSE, content |-> "", error |-> "exception"], {"fs_read"},
               join(RootDir, file_path))

\* open(full_path, "w") truncates the file before f.write(content) looks at content
write_file(file_path, content, env) ==
  CASE ~IsStr(file_path) ->
         Ret([success |-> FALSE, message |-> "", error |-> "exception"], {})
    [] env.outcome # "ok" ->
         RetAt([success |-> FALSE, message |-> "", error |-> "exception"], {},
               join(RootDir, file_path))
    [] ~IsStr(content) ->
         RetAt([success |-> FALSE, message |-> "", error |-> "exception"], {"fs_write"},
               join(RootDir, file_path))
    [] OTHER ->
         RetAt([success |-> TRUE, message |-> "File written", file_path |-> file_path],
               {"fs_write"}, join(RootDir, file_path))

CmdFailure(text) ==
  [success |-> FALSE, stdout |-> "", stderr |-> text, returncode |-> -1]

\* cwd of run_command: the root unless a working_dir is given
Cwd(working_dir) ==
  IF ~Truthy(working_dir) THEN RootDir
  ELSE IF isabs(working_dir) THEN Segments(working_dir)
  ELSE join(RootDir, working_dir)

\* run_command once cwd is resolved and found to exist
SpawnIn(command, cwd, env) ==
  CASE ~IsStr(command) -> RetAt(CmdFailure("exception"), {}, cwd)
    [] env.outcome = "ok" ->
         RetAt([success |-> TRUE, stdout |-> env.stdout, stderr |-> env.stderr,
                returncode |-> 0], {"spawn"}, cwd)
    [] env.outcome = "fail" ->
         RetAt([success |-> FALSE, stdout |-> env.stdout, stderr |-> env.stderr,
                returncode |-> 1], {"spawn"}, cwd)
    [] env.outcome = "timeout" -> RetAt(CmdFailure("Command timed out"), {"spawn"}, cwd)
    [] OTHER -> RetAt(CmdFailure("exception"), {}, cwd)

\* a run_command that starts the process whether or not cwd exists
run_commandWithoutExistenceCheck(command, working_dir, env) ==
  SpawnIn(command, Cwd(working_dir),
          [env EXCEPT !.outcome = IF @ = "missing" THEN "fail" ELSE @])

run_command(command, working_dir, env) ==
  CASE working_dir # ABSENT /\ ~IsStr(working_dir) -> Ret(CmdFailure("exception"), {})
    [] env.outcome = "missing" ->
         RetAt(CmdFailure("Working directory does not exist"), {}, Cwd(working_dir))
    [] OTHER -> SpawnIn(command, Cwd(working_dir), env)

\* method.upper() of the methods the model draws
Upper(method) == IF method = "get" THEN "GET" ELSE method

\* a success test that takes redirects and client errors for success
StatusOkBelowServerError(status_code) == status_code < 500

\* 200 <= response.status_code < 300
StatusOk(status_code) == 200 <= status_code /\ status_code < 300

ApiFailure(text) ==
  [success |-> FALSE, status_code |-> 0, response |-> "", error |-> text]

\* payload is handed to requests as given (json=payload): its type is not looked at
check_api_endpoint(url, method, payload, headers, env) ==
  CASE ~IsStr(method) -> Ret(ApiFailure("exception"), {})
    [] headers # ABSENT /\ ~IsDict(headers) -> Ret(ApiFailure("exception"), {})
    [] Upper(method) \notin {"GET", "POST", "PUT", "DELETE"} ->
         Ret(ApiFailure("Unsupported HTTP method"), {})
    [] ~IsStr(url) -> Ret(ApiFailure("exception"), {})
    [] env.outcome \in {"ok", "fail"} ->
         RetAt([success |-> StatusOk(env.status_code), status_code |-> env.status_code,
                response |-> "body", headers |-> "headers"], {"http"}, <<Upper(method)>>)
    [] env.outcome = "timeout" ->
         RetAt(ApiFailure("Request timed out"), {"http"}, <<Upper(method)>>)
    [] OTHER -> RetAt(ApiFailure("exception"), {"http"}, <<Upper(method)>>)

\* an exception that leaves an operation
Raised == [raised |-> TRUE]
IsRaised(ret) == "raised" \in DOMAIN ret

\* the validation mapping carries valid / has_output / is_success / message;
\* the objects drawn carry neither a success nor a tests_passed key
validate_test_result(result) ==
  IF IsDict(result)
    THEN Ret([valid |-> result = OBJ, has_output |-> result = OBJ, is_success |-> FALSE,
              message |-> IF result = OBJ THEN "Test result validated"
                                          ELSE "Test result missing output"], {})
    ELSE Ret([valid |-> FALSE, has_output |-> FALSE, is_success |-> FALSE,
              message |-> "Validation error"], {})

\* code[:200] raises for a number and takes a slice of an array
analyze_code_behavior(code, expected_behavior) ==
  IF code = INT
    THEN Raised
    ELSE Ret([success |-> TRUE, analysis |-> "Code analysis", code_snippet |-> "snippet",
              note |-> "Detailed analysis should be performed by LLM"], {})

(***************************************************************************)
(* TestExecutorFunctions.call_function                                     *)
(***************************************************************************)
function_map ==
  {"execute_code", "read_file", "write_file", "run_command", "check_api_endpoint",
   "validate_test_result", "analyze_code_behavior"}

\* the parameters of each operation's signature
Params(function_name) ==
  CASE function_name = "execute_code" -> {"code", "language"}
    [] function_name = "read_file" -> {"file_path"}
    [] function_name = "write_file" -> {"file_path", "content"}
    [] function_name = "run_command" -> {"command", "working_dir"}
    [] function_name = "check_api_endpoint" -> {"url", "method", "payload", "headers"}
    [] function_name = "validate_test_result" -> {"result"}
    [] function_name = "analyze_code_behavior" -> {"code", "expected_behavior"}
    [] OTHER -> {}

\* the parameters without a default value
Required(function_name) ==
  CASE function_name = "execute_code" -> {"code"}
    [] function_name = "run_command" -> {"command"}
    [] function_name = "check_api_endpoint" -> {"url"}
    [] OTHER -> Params(function_name)

\* func(**arguments) binds: arguments is a mapping, gives every parameter
\* that has no default and no keyword the signature lacks
Binds(function_name, arguments) ==
  /\ arguments.kind = "mapping"
  /\ Required(function_name) \subseteq Given(arguments.f)
  /\ Given(arguments.f) \subseteq Params(function_name)

Invoke(function_name, f, env) ==
  CASE function_name = "execute_code" ->
         execute_code(f.code, Get(f, "language", "python"), env)
    [] function_name = "read_file" -> read_file(f.file_path, env)
    [] function_name = "write_file" -> write_file(f.file_path, f.content, env)
    [] function_name = "run_command" -> run_command(f.command, f.working_dir, env)
    [] function_name = "check_api_endpoint" ->
         check_api_endpoint(f.url, Get(f, "method", "GET"), f.payload, f.headers, env)
    [] function_name = "validate_test_result" -> validate_test_result(f.result)
    [] OTHER -> analyze_code_behavior(f.code, f.expected_behavior)

call_function(function_name, arguments, env) ==
  IF function_name \notin function_map
    THEN Ret([success |-> FALSE, error |-> "Unknown function"], {})
    ELSE IF ~Binds(function_name, arguments)
      THEN Ret([success |-> FALSE, error |-> "Error calling"], {})
      ELSE LET ret == Invoke(function_name, arguments.f, env)
           IN  IF IsRaised(ret)
                 THEN Ret([success |-> FALSE, error |-> "Error calling"], {})
                 ELSE ret

\* TestExecutorFunctions.get_function_definitions: the advertised tools
SchemaNames ==
  {"execute_code", "read_file", "write_file", "run_command", "check_api_endpoint",
   "validate_test_result"}

\* "required" of each advertised tool
SchemaRequired(function_name) ==
  CASE function_name = "execute_code" -> {"code"}
    [] function_name = "read_file" -> {"file_path"}
    [] function_name = "write_file" -> {"file_path", "content"}
    [] function_name = "run_command" -> {"command"}
    [] function_name = "check_api_endpoint" -> {"url", "method"}
    [] function_name = "validate_test_result" -> {"result"}
    [] OTHER -> {}

\* "enum" of the advertised enum-constrained fields
SchemaEnum(function_name, k) ==
  CASE function_name = "execute_code" /\ k = "language" ->
         {"python", "javascript", "typescript", "js"}
    [] function_name = "check_api_endpoint" /\ k = "method" ->
         {"GET", "POST", "PUT", "DELETE", "PATCH"}
    [] OTHER -> {}

\* "type": "object" fields of the schema; every other field is "type": "string"
SchemaObjectFields == {"payload", "headers", "result"}

(***************************************************************************)
(* Texts of the model and what the code computes on them                   *)
(***************************************************************************)
\* written contents with test markers and without, and final answers of the
\* engine; [fence] stands for a line of three backquotes
TestContent == "def test_x(): assert True"
LongTestContent == "import pytest; def test_a(): assert f() == 1; def test_b(): assert g()"
PlainContent == "x = 1"
LongPlainContent == "def add(a, b): return a + b; VALUE = add(1, 2)"
FencedFinal == "Done: [fence]def test_y(): pass[fence]"
FencedCode == "def test_y(): pass"
EmptyFence == "Nothing to add [fence][fence]"
ProseFinal == "All tests passed."
LongFinal ==
  "The tests are written: def test_create(), def test_list() and def test_delete() cover the product endpoints of the service."

\* len(v) of Python for the values that reach test_code or a length test
PyLen(v) ==
  CASE v = "" -> 0
    [] v = PlainContent -> 5
    [] v = LongPlainContent -> 46
    [] v = TestContent -> 25
    [] v = LongTestContent -> 70
    [] v = FencedCode -> 18
    [] v = FencedFinal -> 38
    [] v = EmptyFence -> 29
    [] v = ProseFinal -> 17
    [] v = LongFinal -> 123
    [] v = LIST -> 2
    [] OTHER -> 1

\* any(keyword in content_arg for keyword in [def test, ..., assert, ...])
HasTestKeyword(v) == v \in {TestContent, LongTestContent, FencedCode, FencedFinal}

\* the file names drawn: one matching the name patterns, one not
TestPath == "test_generated.py"
PlainPath == "helpers.py"
NotesPath == "notes.txt"

\* "test" in file_path.lower() or "generated" in ... or the name patterns
is_test_file(file_path) == file_path = TestPath

\* any(ext in file_path.lower() for ext in [.py, .js, .ts, .tsx, .jsx])
HasCodeExt(file_path) == file_path \in {TestPath, PlainPath}

\* the commands drawn
TestCommand == "python -m pytest test_generated.py"
InstallCommand == "pip install requests"
InstallTestToolsCommand == "pip install pytest httpx"

\* any(cmd in command.lower() for cmd in [test, pytest, jest, ...])
is_test_command(command) == command \in {TestCommand, InstallTestToolsCommand}

\* process output texts
PassedOut == "3 passed"
MixedOut == "3 passed, 1 failed"
NoModuleErr == "ModuleNotFoundError: No module named app"
UnclearOut == "collected 0 items"
InstalledOut == "Successfully installed pytest httpx"
FailedWordOut == "some tests failed"
LintOut == "lint failed"

\* text.strip() is empty
Blank(text) == text = ""

\* a number followed by passed, or the word passed, in the lowered output
has_passed(output) == output \in {PassedOut, MixedOut}

\* only a number followed by failed
has_failedCountOnly(output) == output = MixedOut

\* a number followed by failed, or the word failed together with test
has_failed(output) == output \in {MixedOut, FailedWordOut}

(***************************************************************************)
(* TestGenerator._summarize_execution_results                              *)
(* The narrative is kept as the sequence of its parts (the code joins them *)
(* with newlines); a part is a record naming its fixed text and carrying   *)
(* the text put into it.                                                   *)
(***************************************************************************)
Part(p, t) == [part |-> p, text |-> t]

\* result.get(key, default)
ResGet(res, k, d) == IF k \in DOMAIN res THEN res[k] ELSE d

\* the diagnostic part chosen from the error text of a failed command
DiagParts(error_msg) ==
  CASE error_msg = NoModuleErr -> <<Part("Error: Module not found. Check import paths.", "app")>>
    [] OTHER -> <<>>

SummaryStart ==
  [tests_passed |-> FALSE, test_execution_found |-> FALSE,
   test_execution_failed |-> FALSE, log_parts |-> <<>>]

\* a test command that exited with 0 and whose unclear output leaves the
\* verdict as it was
TestOutcomeUnclearKeeps(acc, returncode, output) ==
  IF returncode = 0
    THEN CASE has_passed(output) /\ ~has_failed(output) ->
                [tests_passed |-> TRUE, test_execution_failed |-> acc.test_execution_failed]
           [] has_failed(output) ->
                [tests_passed |-> FALSE, test_execution_failed |-> TRUE]
           [] OTHER ->
                [tests_passed |-> acc.tests_passed,
                 test_execution_failed |-> acc.test_execution_failed]
    ELSE [tests_passed |-> FALSE, test_execution_failed |-> TRUE]

\* the flags after a test command whose result has success true
TestOutcome(acc, returncode, output) ==
  IF returncode = 0
    THEN CASE has_passed(output) /\ ~has_failed(output) ->
                [tests_passed |-> TRUE, test_execution_failed |-> acc.test_execution_failed]
           [] has_failed(output) ->
                [tests_passed |-> FALSE, test_execution_failed |-> TRUE]
           [] OTHER ->
                [tests_passed |-> TRUE, test_execution_failed |-> acc.test_execution_failed]
    ELSE [tests_passed |-> FALSE, test_execution_failed |-> TRUE]

\* a failed command that leaves the flags as they were
CommandFailedUnmarked(acc, is_test) ==
  [tests_passed |-> acc.tests_passed,
   test_execution_found |-> acc.test_execution_found,
   test_execution_failed |-> acc.test_execution_failed]

\* the flags after a command whose result has no success true
CommandFailed(acc, is_test) ==
  [tests_passed |-> IF is_test THEN FALSE ELSE acc.tests_passed,
   test_execution_found |-> acc.test_execution_found \/ is_test,
   test_execution_failed |-> acc.test_execution_failed \/ is_test]

\* one pass of the loop over execution_log
SummarizeEntry(acc, entry) ==
  IF "error" \in DOMAIN entry
    THEN [acc EXCEPT !.log_parts = Append(@, entry.error)]
  ELSE IF entry.function = "run_command"
    THEN LET res == entry.result
             stdout == ResGet(res, "stdout", "")
             stderr == ResGet(res, "stderr", "")
             is_test == is_test_command(entry.command)
             output == IF ~Blank(stdout) THEN stdout ELSE stderr
         IN  IF ResGet(res, "success", FALSE)
               THEN IF is_test
                      THEN LET flags == TestOutcome(acc, ResGet(res, "returncode", -1),
                                                    output)
                           IN  [tests_passed |-> flags.tests_passed,
                                test_execution_found |-> TRUE,
                                test_execution_failed |-> flags.test_execution_failed,
                                log_parts |->
                                  Append(acc.log_parts, Part("Test Results:", output))]
                      ELSE acc
               ELSE [tests_passed |-> CommandFailed(acc, is_test).tests_passed,
                     test_execution_found |->
                       CommandFailed(acc, is_test).test_execution_found,
                     test_execution_failed |->
                       CommandFailed(acc, is_test).test_execution_failed,
                     log_parts |->
                       acc.log_parts \o <<Part("Command failed:", entry.command)>>
                         \o DiagParts(output) \o <<Part("Error details:", output)>>]
  ELSE IF entry.function = "execute_code"
    THEN [acc EXCEPT !.log_parts =
            Append(@, IF ResGet(entry.result, "success", FALSE)
                        THEN Part("Code executed:", ResGet(entry.result, "output", ""))
                        ELSE Part("Code execution failed:",
                                  ResGet(entry.result, "error", "")))]
  ELSE IF entry.function = "check_api_endpoint"
    THEN IF ResGet(entry.result, "success", FALSE)
           THEN [acc EXCEPT
                   !.log_parts = Append(@, Part("API endpoint check passed:", "200")),
                   !.tests_passed = IF acc.test_execution_found THEN @ ELSE TRUE]
           ELSE [acc EXCEPT
                   !.log_parts = Append(@, Part("API endpoint check failed:",
                                                ResGet(entry.result, "error", "")))]
  ELSE acc

RECURSIVE SummarizeLoop(_, _)
SummarizeLoop(acc, log) ==
  IF log = <<>> THEN acc ELSE SummarizeLoop(SummarizeEntry(acc, Head(log)), Tail(log))

\* command.lower() raises for a command that is no text
SummarizeRaises(log) ==
  \E i \in 1..Len(log) :
    /\ "function" \in DOMAIN log[i]
    /\ log[i].function = "run_command"
    /\ ~IsStr(log[i].command)

\* a summary that returns the verdict of the loop as it stands
SummarizeWithoutFinalValidation(log) ==
  IF log = <<>>
    THEN [tests_passed |-> FALSE, log |-> <<Part("No test execution performed", "")>>]
  ELSE IF SummarizeRaises(log)
    THEN Raised
  ELSE LET acc == SummarizeLoop(SummaryStart, log)
       IN  [tests_passed |-> acc.tests_passed,
            log |-> IF acc.log_parts = <<>>
                      THEN <<Part("Test execution completed", "")>>
                      ELSE acc.log_parts]

_summarize_execution_results(log) ==
  IF log = <<>>
    THEN [tests_passed |-> FALSE, log |-> <<Part("No test execution performed", "")>>]
  ELSE IF SummarizeRaises(log)
    THEN Raised
  ELSE LET acc == SummarizeLoop(SummaryStart, log)
       IN  [tests_passed |->
              IF acc.test_execution_found /\ acc.test_execution_failed
                THEN FALSE ELSE acc.tests_passed,
            log |-> IF acc.log_parts = <<>>
                      THEN <<Part("Test execution completed", "")>>
                      ELSE acc.log_parts]

(***************************************************************************)
(* TestGenerator: the function-calling loop                                *)
(***************************************************************************)
VARIABLES
  extracted_path,   \* code_analyzer.extracted_path is set
  pc,               \* where generate_and_execute_tests stands
  iteration,        \* the loop counter
  messages,         \* the conversation sent to the engine
  pending,          \* ids of the tool calls of the response not yet dispatched
  current,          \* the tool calls inside executor.call_function
  execution_log,
  test_code,
  result,           \* what generate_and_execute_tests returned
  engine_calls,     \* number of chat.completions.create calls made
  sent_messages,    \* the messages argument of the last of them
  dispatched,       \* the tool calls handed to call_function, in order
  fault,            \* the exception handlers that ran, by what raised
  cf_call,          \* a single call_function call: its input
  cf_ret,           \* and what it returned
  host,             \* the files and the installed packages of the machine
  cancel_requested  \* the caller of the request gave it up (disconnect, deadline)

loop_vars ==
  <<extracted_path, pc, iteration, messages, pending, current, execution_log,
    test_code, result, engine_calls, sent_messages, dispatched, fault>>
call_vars == <<cf_call, cf_ret, host, cancel_requested>>
vars == <<loop_vars, call_vars>>

\* the iteration cap; the source fixes it to 10 and the loop does not depend
\* on its value otherwise
max_iterations == 3
\* a response of the engine carries at most MaxBatch tool calls
MaxBatch == 2
\* the engine asks for at most MaxCalls tool calls in one run
MaxCalls == 3

NoResult == [none |-> TRUE]
NoCall == [none |-> TRUE]

Args(f) == [kind |-> "mapping", f |-> f]
\* argument text that json.loads parses to something that is no mapping
NotMapping == [kind |-> "list", f |-> NoArgs]
\* argument text that json.loads rejects
Unparsable == [kind |-> "unparsable", f |-> NoArgs]

Call(name, arguments) == [name |-> name, arguments |-> arguments]

\* the tool calls the engine may ask for
EngineCalls ==
  {Call("read_file", Args([NoArgs EXCEPT !.file_path = PlainPath])),
   Call("read_file", Unparsable),
   Call("run_command", NotMapping),
   Call("delete_file", Args([NoArgs EXCEPT !.file_path = PlainPath])),
   Call("validate_test_result", Args([NoArgs EXCEPT !.result = OBJ])),
   Call("execute_code", Args([NoArgs EXCEPT !.code = "print(1)"])),
   Call("execute_code", Args([NoArgs EXCEPT !.code = INT])),
   Call("check_api_endpoint", Args([NoArgs EXCEPT !.url = "http://localhost:8000/"])),
   Call("run_command", Args([NoArgs EXCEPT !.command = TestCommand])),
   Call("run_command", Args([NoArgs EXCEPT !.command = InstallCommand])),
   Call("run_command", Args([NoArgs EXCEPT !.command = LIST])),
   Call("write_file", Args([NoArgs EXCEPT !.file_path = TestPath, !.content = TestContent])),
   Call("write_file", Args([NoArgs EXCEPT !.file_path = PlainPath, !.content = PlainContent])),
   Call("write_file", Args([NoArgs EXCEPT !.file_path = PlainPath,
                                          !.content = LongPlainContent])),
   Call("write_file", Args([NoArgs EXCEPT !.file_path = NotesPath, !.content = PlainContent])),
   Call("write_file", Args([NoArgs EXCEPT !.file_path = TestPath, !.content = LIST])),
   Call("write_file", Args([NoArgs EXCEPT !.file_path = INT, !.content = TestContent])),
   Call("write_file", Args([NoArgs EXCEPT !.file_path = TestPath, !.content = INT]))}

Env(o, out, err, rr) == [outcome |-> o, stdout |-> out, stderr |-> err, reread |-> rr,
                         content |-> "file text",
                         status_code |-> IF o = "ok" THEN 200 ELSE 500]

\* what the environment may do with a tool call of the loop
LoopEnvs(tool_call) ==
  CASE tool_call.name = "run_command" /\ tool_call.arguments.f.command = TestCommand ->
         {Env("ok", PassedOut, "", "ok"), Env("ok", MixedOut, "", "ok"),
          Env("fail", "", NoModuleErr, "ok"), Env("timeout", "", "", "ok")}
    [] tool_call.name = "write_file" -> {Env("ok", "", "", "ok"), Env("raise", "", "", "ok")}
    [] tool_call.name = "execute_code" ->
         {Env("ok", "", "", "ok"), Env("timeout", "", "", "ok")}
    [] OTHER -> {Env("ok", "", "", "ok")}

\* the final answers the engine may give (message.content; None reads as "")
FinalContents == {"", FencedFinal, LongFinal}

\* the responses of one chat.completions.create call: an exception, a message
\* without tool calls, a message with 1..MaxBatch tool calls.  The ids of the
\* tool calls are unique within the message (the position; they repeat from
\* one message to the next).  What the engine put into a tool call (name and
\* argument text) is drawn when the loop reaches the call.
Responses(budget) ==
  {[kind |-> "error"]}
  \cup {[kind |-> "final", content |-> c] : c \in FinalContents}
  \cup {[kind |-> "tools", tool_calls |-> [i \in 1..n |-> i]] :
          n \in 1..(IF budget < MaxBatch THEN budget ELSE MaxBatch)}

\* TestGenerator._extract_code_from_markdown on the final answers drawn
_extract_code_from_markdown(text) ==
  CASE text = FencedFinal -> FencedCode
    [] text = EmptyFence -> ""
    [] OTHER -> text

\* the fence marker is in the text
HasFence(text) == text \in {FencedFinal, EmptyFence}

\* any(keyword in final_response for keyword in [def, function, describe, it(, test])
LooksLikeCode(text) == text \in {FencedFinal, LongFinal, ProseFinal}

\* test_code after a response without tool calls
FinalResponse(code, content) ==
  IF HasFence(content)
    THEN IF Truthy(_extract_code_from_markdown(content))
           THEN _extract_code_from_markdown(content)
           ELSE code
    ELSE IF Truthy(content) /\ PyLen(content) > 100 /\ LooksLikeCode(content)
           THEN content
           ELSE code

\* a collector that keeps the content of the last write_file call
CollectTestCodeLastWins(code, arguments, function_result, env) ==
  [test_code |-> Get(arguments.f, "content", "")]

\* test_code after a write_file call: Raised when the code raises
\* (function_args.get, file_path.lower(), keyword in content_arg)
CollectTestCode(code, arguments, function_result, env) ==
  LET file_path == Get(arguments.f, "file_path", "")
      content_arg == Get(arguments.f, "content", "")
  IN  IF arguments.kind # "mapping" \/ ~IsStr(file_path) \/ content_arg = INT
        THEN Raised
        ELSE
          LET looks_like_test == Truthy(content_arg) /\ HasTestKeyword(content_arg)
              from_arg ==
                IF /\ Truthy(content_arg)
                   /\ is_test_file(file_path) \/ looks_like_test
                   /\ ~Truthy(code) \/ PyLen(content_arg) > PyLen(code)
                  THEN content_arg
                  ELSE code
              file_content ==
                read_file(file_path,
                          [env EXCEPT !.outcome = env.reread, !.content = content_arg]).res
          IN  IF /\ ResGet(function_result, "success", FALSE)
                 /\ HasCodeExt(file_path)
                 /\ file_content.success
                 /\ is_test_file(file_path) \/ looks_like_test \/ ~Truthy(from_arg)
                 /\ PyLen(file_content.content) > PyLen(from_arg) \/ ~Truthy(from_arg)
                THEN [test_code |-> file_content.content]
                ELSE [test_code |-> from_arg]

LoggedFunctions == {"execute_code", "run_command", "check_api_endpoint"}

\* the entry appended for a logged call: Raised when building it raises
\* (function_args.get on what is no mapping, a slice of a number)
LogEntry(function_name, arguments, function_result) ==
  CASE function_name = "run_command" ->
         IF arguments.kind # "mapping"
           THEN Raised
           ELSE [function |-> function_name, result |-> function_result,
                 command |-> Get(arguments.f, "command", "")]
    [] function_name = "execute_code" ->
         IF arguments.kind # "mapping" \/ arguments.f.code = INT
           THEN Raised
           ELSE [function |-> function_name, result |-> function_result,
                 code_snippet |-> Get(arguments.f, "code", "")]
    [] OTHER -> [function |-> function_name, result |-> function_result]

\* the entry the except clause of the loop appends
IterationFailed(i) == [error |-> Part("Iteration failed:", ToString(i))]

Fallback(text) ==
  [generated_test_code |-> "",
   execution_result |-> [tests_passed |-> FALSE, log |-> <<Part(text, "")>>]]

\* the requests served side by side and the directory tempfile.mkdtemp gives each
Requests == {1, 2}
Root(r) == IF r = 1 THEN RootDir ELSE <<"/", "work", "req2">>

\* the files of the machine the model follows: helpers.py of each request
HostPaths == {Root(r) \o <<PlainPath>> : r \in Requests}
HostAtStart == [packages |-> {}, files |-> [p \in HostPaths |-> "original"]]

InitCall ==
  /\ cf_call = NoCall
  /\ cf_ret = NoCall
  /\ host = HostAtStart
  /\ cancel_requested = FALSE

Init ==
  /\ extracted_path \in BOOLEAN
  /\ pc = "idle"
  /\ iteration = 0
  /\ messages = <<>>
  /\ pending = <<>>
  /\ current = <<>>
  /\ execution_log = <<>>
  /\ test_code = ""
  /\ result = NoResult
  /\ engine_calls = 0
  /\ sent_messages = <<>>
  /\ dispatched = <<>>
  /\ fault = {}
  /\ InitCall

\* generate_and_execute_tests up to the loop
Start ==
  /\ pc = "idle"
  /\ IF ~extracted_path
       THEN /\ result' = Fallback("No extracted code path available")
            /\ pc' = "done"
            /\ fault' = fault \cup {"no_path"}
            /\ messages' = messages
       ELSE /\ messages' = <<[role |-> "system"], [role |-> "user"]>>
            /\ pc' = "loop"
            /\ UNCHANGED <<result, fault>>
  /\ UNCHANGED <<extracted_path, iteration, pending, current, execution_log, test_code,
                 engine_calls, sent_messages, dispatched, call_vars>>

\* a loop that runs once more than the cap allows
LoopConditionOffByOne == iteration <= max_iterations

\* the loop condition
LoopCondition == iteration < max_iterations

\* one pass of the loop from its head to the end of the response handling
\* that comes before the first tool call
\* a loop that goes round again after a response without tool calls
AfterFinalResponseGoesOn == "loop"

\* the break of the else branch: the loop is left
AfterFinalResponse == "summarize"

\* a request that carries only the latest turns of the conversation
RequestOfLastTurns(conversation) ==
  IF Len(conversation) > 2
    THEN SubSeq(conversation, Len(conversation) - 1, Len(conversation))
    ELSE conversation

\* chat.completions.create(messages=messages): the list itself is handed over
RequestMessages(conversation) == conversation

EngineCall ==
  /\ pc = "loop"
  /\ LoopCondition
  /\ \E response \in Responses(MaxCalls - Len(dispatched)) :
       /\ engine_calls' = engine_calls + 1
       /\ sent_messages' = RequestMessages(messages)
       /\ CASE response.kind = "error" ->
                 /\ execution_log' = Append(execution_log, IterationFailed(iteration))
                 /\ fault' = fault \cup {"engine"}
                 /\ pc' = "summarize"
                 /\ UNCHANGED <<messages, pending, test_code>>
            [] response.kind = "final" ->
                 /\ messages' = Append(messages, [role |-> "assistant",
                                                  content |-> response.content])
                 /\ test_code' = FinalResponse(test_code, response.content)
                 /\ pc' = AfterFinalResponse
                 /\ UNCHANGED <<execution_log, pending, fault>>
            [] OTHER ->
                 /\ messages' =
                      Append(messages,
                             [role |-> "assistant", content |-> "",
                              tool_calls |-> response.tool_calls])
                 /\ pending' = response.tool_calls
                 /\ pc' = "dispatch"
                 /\ UNCHANGED <<execution_log, test_code, fault>>
  /\ UNCHANGED <<extracted_path, iteration, current, result, dispatched, call_vars>>

\* a loop that walks the tool calls from the last to the first
NextToolCallReversed(calls) == calls[Len(calls)]

\* the tool call the for loop over message.tool_calls takes next
NextToolCall(calls) == Head(calls)

\* the head of the for loop over message.tool_calls: json.loads, then the call
DispatchStart ==
  /\ pc = "dispatch"
  /\ pending # <<>>
  /\ current = <<>>
  /\ \E call \in EngineCalls :
       LET tool_call == [id |-> NextToolCall(pending), name |-> call.name,
                         arguments |-> call.arguments]
       IN  IF tool_call.arguments.kind = "unparsable"
             THEN /\ execution_log' = Append(execution_log, IterationFailed(iteration))
                  /\ fault' = fault \cup {"arguments"}
                  /\ pc' = "summarize"
                  /\ UNCHANGED <<pending, current, dispatched>>
             ELSE /\ current' = <<tool_call>>
                  /\ pending' = Tail(pending)
                  /\ dispatched' = Append(dispatched, [iteration |-> iteration,
                                                       id |-> tool_call.id,
                                                       name |-> tool_call.name])
                  /\ pc' = "in_call"
                  /\ UNCHANGED <<execution_log, fault>>
  /\ UNCHANGED <<extracted_path, iteration, messages, test_code, result, engine_calls,
                 sent_messages, call_vars>>

\* a result turn that carries the id of the first tool call of a response
ToolMessageFirstId(tool_call, function_result) ==
  [role |-> "tool", tool_call_id |-> 1, content |-> function_result]

\* the turn appended for a tool call
ToolMessage(tool_call, function_result) ==
  [role |-> "tool", tool_call_id |-> tool_call.id, content |-> function_result]

\* a loop that is left after every tool call
AfterCallLeavesLoop(rest) == "summarize"

\* the position after the last tool call of a response
AfterCall(rest) == IF rest = <<>> THEN "loop" ELSE "dispatch"

\* call_function returns; the result is appended, the test code collected and
\* the call logged
DispatchFinish ==
  /\ pc = "in_call"
  /\ LET tool_call == current[1]
     IN  \E env \in LoopEnvs(tool_call) :
           LET function_result ==
                 call_function(tool_call.name, tool_call.arguments, env).res
               collected ==
                 IF tool_call.name = "write_file"
                   THEN CollectTestCode(test_code, tool_call.arguments,
                                        function_result, env)
                   ELSE [test_code |-> test_code]
               entry == LogEntry(tool_call.name, tool_call.arguments, function_result)
           IN  /\ messages' = Append(messages, ToolMessage(tool_call, function_result))
               /\ current' = <<>>
               /\ IF IsRaised(collected)
                    THEN /\ test_code' = test_code
                         /\ execution_log' =
                              Append(execution_log, IterationFailed(iteration))
                         /\ fault' = fault \cup {"collect"}
                         /\ pc' = "summarize"
                         /\ iteration' = iteration
                    ELSE /\ test_code' = collected.test_code
                         /\ IF tool_call.name \in LoggedFunctions
                              THEN IF IsRaised(entry)
                                     THEN /\ execution_log' =
                                               Append(execution_log,
                                                      IterationFailed(iteration))
                                          /\ fault' = fault \cup {"collect"}
                                          /\ pc' = "summarize"
                                          /\ iteration' = iteration
                                     ELSE /\ execution_log' = Append(execution_log, entry)
                                          /\ fault' = fault
                                          /\ pc' = AfterCall(pending)
                                          /\ iteration' =
                                               IF pending = <<>> THEN iteration + 1
                                                                 ELSE iteration
                              ELSE /\ execution_log' = execution_log
                                   /\ fault' = fault
                                   /\ pc' = AfterCall(pending)
                                   /\ iteration' =
                                        IF pending = <<>> THEN iteration + 1 ELSE iteration
  /\ UNCHANGED <<extracted_path, pending, result, engine_calls, sent_messages,
                 dispatched, call_vars>>

\* any(entry.get("function") == "write_file" for entry in execution_log)
write_file_called(log) ==
  \E i \in 1..Len(log) : "function" \in DOMAIN log[i] /\ log[i].function = "write_file"

WarningPart(log) ==
  IF write_file_called(log)
    THEN Part("Warning: write_file was called but no test code was collected.", "")
    ELSE Part("Warning: No test code was generated or collected.", "")

\* what generate_and_execute_tests returns after the loop
FinalResult(code, log) ==
  LET execution_result == _summarize_execution_results(log)
  IN  IF IsRaised(execution_result)
        THEN Fallback("Error generating/executing tests:")
        ELSE [generated_test_code |-> code,
              execution_result |->
                IF ~Truthy(code)
                  THEN [execution_result EXCEPT !.log = <<WarningPart(log)>> \o @]
                  ELSE execution_result]

\* the loop is left, the log summarized and the result returned
Summarize ==
  /\ pc = "summarize" \/ (pc = "loop" /\ ~LoopCondition)
  /\ result' = FinalResult(test_code, execution_log)
  /\ fault' = IF IsRaised(_summarize_execution_results(execution_log))
                THEN fault \cup {"summarize"} ELSE fault
  /\ pc' = "done"
  /\ UNCHANGED <<extracted_path, iteration, messages, pending, current, execution_log,
                 test_code, engine_calls, sent_messages, dispatched, call_vars>>

Next == Start \/ EngineCall \/ DispatchStart \/ DispatchFinish \/ Summarize

Spec == Init /\ [][Next]_vars

\* What the code bounds in time goes on: a started tool call returns, since
\* subprocess.run is given timeout=10 or timeout=60 and requests timeout=10, and
\* the steps of the loop between the calls are the interpreter's own. The
\* request chat.completions.create of the loop is given no timeout argument,
\* so nothing makes a request that is waiting for the engine go on.
BoundedStepsGoOn ==
  /\ WF_vars(Start)
  /\ WF_vars(DispatchStart)
  /\ WF_vars(DispatchFinish)
  /\ WF_vars(Summarize)

SpecLive == Init /\ [][Next]_vars /\ BoundedStepsGoOn

\* The caller gives the request up while generate_and_execute_tests runs: the
\* route awaits nothing between its start and the response, and the loop
\* takes no token, flag or deadline, so the running request is told nothing.
Cancel ==
  /\ pc \notin {"idle", "done"}
  /\ ~cancel_requested
  /\ cancel_requested' = TRUE
  /\ UNCHANGED <<loop_vars, cf_call, cf_ret, host>>

NextCancel == Next \/ Cancel

SpecCancel == Init /\ [][NextCancel]_vars

(***************************************************************************)
(* call_function on its own: one call with any name, any arguments of the  *)
(* shapes below and any behaviour of the environment                       *)
(***************************************************************************)
\* the argument mappings over the given values of each keyword
ArgsOfExecute ==
  {Args([NoArgs EXCEPT !.code = c, !.language = l]) :
     c \in {"print(1)", INT, ABSENT},
     l \in {ABSENT, "python", "javascript", "typescript", "js", "ruby", INT}}
\* paths that name a file of the working directory and paths that leave it
GivenPaths ==
  {PlainPath, "sub/../helpers.py", "../outside.txt", "sub/../../outside.txt",
   "/srv/outside.txt"}
ArgsOfRead == {Args([NoArgs EXCEPT !.file_path = fp]) : fp \in GivenPaths \cup {INT, ABSENT}}
ArgsOfWrite ==
  {Args([NoArgs EXCEPT !.file_path = fp, !.content = c]) :
     fp \in GivenPaths \cup {TestPath, INT, ABSENT}, c \in {TestContent, INT, LIST, ABSENT}}
ArgsOfCommand ==
  {Args([NoArgs EXCEPT !.command = c, !.working_dir = w]) :
     c \in {TestCommand, INT, LIST, ABSENT}, w \in {ABSENT, "", "tests", "/srv", INT}}
ArgsOfEndpoint ==
  {Args([NoArgs EXCEPT !.url = u, !.method = m, !.payload = pl, !.headers = h]) :
     u \in {"http://localhost:8000/", INT, ABSENT},
     m \in {ABSENT, "GET", "get", "POST", "PUT", "DELETE", "PATCH", "HEAD", INT},
     pl \in {ABSENT, OBJ, "text"},
     h \in {ABSENT, OBJ, "text"}}
ArgsOfValidate == {Args([NoArgs EXCEPT !.result = r]) : r \in {OBJ, OBJ_PLAIN, "text", INT, ABSENT}}
ArgsOfAnalyze ==
  {Args([NoArgs EXCEPT !.code = c, !.expected_behavior = e]) :
     c \in {"print(1)", INT, ABSENT}, e \in {"prints 1", ABSENT}}

ArgsOf(function_name) ==
  (CASE function_name = "execute_code" -> ArgsOfExecute
     [] function_name = "read_file" -> ArgsOfRead
     [] function_name = "write_file" -> ArgsOfWrite
     [] function_name = "run_command" -> ArgsOfCommand
     [] function_name = "check_api_endpoint" -> ArgsOfEndpoint
     [] function_name = "validate_test_result" -> ArgsOfValidate
     [] function_name = "analyze_code_behavior" -> ArgsOfAnalyze
     [] OTHER -> ArgsOfRead)
  \cup {NotMapping, Args([NoArgs EXCEPT !.extra = "x"])}

\* a name no operation has, besides the names of the dispatch table
CallNames == function_map \cup {"delete_file"}

\* the status codes of the responses drawn besides 200 and 500
Statuses == {199, 201, 299, 300, 404}

CallEnvs ==
  {Env(o, PassedOut, NoModuleErr, "ok") : o \in Outcomes}
  \cup {[Env("ok", PassedOut, NoModuleErr, "ok") EXCEPT !.status_code = st] : st \in Statuses}

CallInputs ==
  UNION {{[name |-> n, arguments |-> a, env |-> e] : a \in ArgsOf(n), e \in CallEnvs} :
           n \in CallNames}

InitOneCall ==
  /\ extracted_path = TRUE
  /\ pc = "call"
  /\ iteration = 0
  /\ messages = <<>>
  /\ pending = <<>>
  /\ current = <<>>
  /\ execution_log = <<>>
  /\ test_code = ""
  /\ result = NoResult
  /\ engine_calls = 0
  /\ sent_messages = <<>>
  /\ dispatched = <<>>
  /\ fault = {}
  /\ cf_call \in CallInputs
  /\ cf_ret = NoCall
  /\ host = HostAtStart
  /\ cancel_requested = FALSE

CallFunction ==
  /\ pc = "call"
  /\ cf_ret = NoCall
  /\ cf_ret' = call_function(cf_call.name, cf_call.arguments, cf_call.env)
  /\ UNCHANGED <<loop_vars, cf_call, host, cancel_requested>>

NextCall == CallFunction

SpecCall == InitOneCall /\ [][NextCall]_vars

(***************************************************************************)
(* _summarize_execution_results on its own: a log is built entry by entry  *)
(* from what the loop can append, and classified                           *)
(***************************************************************************)
\* a log of the classifier has at most MaxLog entries
MaxLog == 3

\* what a process of run_command may do: exit status and the two streams
CommandEnvs ==
  {Env("ok", PassedOut, "", "ok"), Env("ok", MixedOut, "", "ok"),
   Env("ok", PassedOut, FailedWordOut, "ok"), Env("ok", "", FailedWordOut, "ok"),
   Env("ok", UnclearOut, "", "ok"), Env("ok", LintOut, "", "ok"),
   Env("fail", PassedOut, "", "ok"), Env("fail", "", NoModuleErr, "ok")}

\* the entries the loop appends for the calls of the logged kinds, and the
\* entry of its except clause
LogEntries ==
  {LogEntry("run_command", Args([NoArgs EXCEPT !.command = c]),
            call_function("run_command", Args([NoArgs EXCEPT !.command = c]), e).res) :
     c \in {TestCommand}, e \in CommandEnvs}
  \cup
  {LogEntry("run_command", Args([NoArgs EXCEPT !.command = c]),
            call_function("run_command", Args([NoArgs EXCEPT !.command = c]), e).res) :
     c \in {InstallCommand, INT},
     e \in {Env("ok", PassedOut, "", "ok"), Env("fail", "", NoModuleErr, "ok")}}
  \cup
  {LogEntry("run_command", Args([NoArgs EXCEPT !.command = InstallTestToolsCommand]),
            call_function("run_command",
                          Args([NoArgs EXCEPT !.command = InstallTestToolsCommand]), e).res) :
     e \in {Env("ok", InstalledOut, "", "ok")}}
  \cup
  {LogEntry("check_api_endpoint",
            Args([NoArgs EXCEPT !.url = "http://localhost:8000/", !.method = "GET"]),
            call_function("check_api_endpoint",
                          Args([NoArgs EXCEPT !.url = "http://localhost:8000/",
                                              !.method = "GET"]), e).res) :
     e \in {Env("ok", "", "", "ok"), Env("fail", "", "", "ok")}}
  \cup
  {LogEntry("execute_code", Args([NoArgs EXCEPT !.code = "print(1)"]),
            call_function("execute_code", Args([NoArgs EXCEPT !.code = "print(1)"]),
                          Env("ok", PassedOut, "", "ok")).res),
   IterationFailed(1)}

InitSummary ==
  /\ extracted_path = TRUE
  /\ pc = "classify"
  /\ iteration = 0
  /\ messages = <<>>
  /\ pending = <<>>
  /\ current = <<>>
  /\ execution_log = <<>>
  /\ test_code \in {"", TestContent}
  /\ result = NoResult
  /\ engine_calls = 0
  /\ sent_messages = <<>>
  /\ dispatched = <<>>
  /\ fault = {}
  /\ InitCall

\* execution_log.append(log_entry)
LogAppend ==
  /\ pc = "classify"
  /\ Len(execution_log) < MaxLog
  /\ \E entry \in LogEntries : execution_log' = Append(execution_log, entry)
  /\ result' = NoResult
  /\ UNCHANGED <<extracted_path, pc, iteration, messages, pending, current, test_code,
                 engine_calls, sent_messages, dispatched, fault, call_vars>>

\* the log is summarized and the result of the run built from it
Classify ==
  /\ pc = "classify"
  /\ result = NoResult
  /\ result' = FinalResult(test_code, execution_log)
  /\ UNCHANGED <<extracted_path, pc, iteration, messages, pending, current,
                 execution_log, test_code, engine_calls, sent_messages, dispatched,
                 fault, call_vars>>

NextSummary == LogAppend \/ Classify

SpecSummary == InitSummary /\ [][NextSummary]_vars

(***************************************************************************)
(* The collection of test code on its own: a run of write_file calls, each *)
(* followed by the collector of the loop                                   *)
(***************************************************************************)
\* the collector sees at most MaxWrites write_file calls
MaxWrites == 3

\* the write_file calls drawn: each path with each content
WriteCalls ==
  {Call("write_file", Args([NoArgs EXCEPT !.file_path = fp, !.content = c])) :
     fp \in {TestPath, PlainPath}, c \in {TestContent, LongTestContent, PlainContent}}

InitCollect ==
  /\ extracted_path = TRUE
  /\ pc = "collect"
  /\ iteration = 0
  /\ messages = <<>>
  /\ pending = <<>>
  /\ current = <<>>
  /\ execution_log = <<>>
  /\ test_code = ""
  /\ result = NoResult
  /\ engine_calls = 0
  /\ sent_messages = <<>>
  /\ dispatched = <<>>
  /\ fault = {}
  /\ InitCall

\* one write_file call of the loop: call_function, then the collection
CollectWrite ==
  /\ pc = "collect"
  /\ Len(dispatched) < MaxWrites
  /\ \E call \in WriteCalls :
       \E env \in LoopEnvs(call) :
         LET function_result == call_function(call.name, call.arguments, env).res
         IN  /\ test_code' = CollectTestCode(test_code, call.arguments,
                                             function_result, env).test_code
             /\ dispatched' = Append(dispatched,
                                     [iteration |-> 0, id |-> Len(dispatched) + 1,
                                      name |-> call.name, arguments |-> call.arguments,
                                      result |-> function_result])
  /\ UNCHANGED <<extracted_path, pc, iteration, messages, pending, current,
                 execution_log, result, engine_calls, sent_messages, fault, call_vars>>

NextCollect == CollectWrite

SpecCollect == InitCollect /\ [][NextCollect]_vars

(***************************************************************************)
(* TestExecutorFunctions._normalize_python_command on its own.  A command  *)
(* is the sequence of its words, separated by single blanks, and whether   *)
(* blanks surround it.                                                     *)
(***************************************************************************)
\* a command has at most MaxWords words
MaxWords == 3

\* self.python_executable
python_exe == "/usr/bin/python3.11"

Words ==
  {"pip", "pip3", "pip3.11", "pytest", "python", "python3", "install", "list", "-m",
   "ls", "requests"}

Commands ==
  {[padded |-> b, words |-> w] :
     b \in BOOLEAN, w \in UNION {[1..n -> Words] : n \in 1..MaxWords}}

\* normalized[n:] after a prefix of k words and the blank that follows them
Rest(words, k) == SubSeq(words, k + 1, Len(words))

\* normalized.startswith(prefix + " ") for a prefix of whole words
StartsWith(words, prefix) ==
  /\ Len(words) > Len(prefix)
  /\ SubSeq(words, 1, Len(prefix)) = prefix

\* a normalization that also replaces the interpreter name where it is not
\* the leading word
NormalizeEveryWord(command) ==
  [padded |-> FALSE,
   words |-> [i \in 1..Len(command.words) |->
                IF command.words[i] \in {"python", "python3"}
                  THEN python_exe ELSE command.words[i]]]

_normalize_python_command(command) ==
  LET normalized == command.words
      Out(words) == [padded |-> FALSE, words |-> words]
  IN  CASE StartsWith(normalized, <<"pip", "install">>) ->
             Out(<<python_exe, "-m", "pip", "install">> \o Rest(normalized, 2))
        [] StartsWith(normalized, <<"pip3", "install">>) ->
             Out(<<python_exe, "-m", "pip", "install">> \o Rest(normalized, 2))
        [] StartsWith(normalized, <<"pip">>) ->
             Out(<<python_exe, "-m", "pip">> \o Rest(normalized, 1))
        [] StartsWith(normalized, <<"pip3">>) ->
             Out(<<python_exe, "-m", "pip">> \o Rest(normalized, 1))
        [] StartsWith(normalized, <<"pytest">>) ->
             Out(<<python_exe, "-m", "pytest">> \o Rest(normalized, 1))
        [] normalized = <<"pytest">> -> Out(<<python_exe, "-m", "pytest">>)
        [] StartsWith(normalized, <<"python", "-m">>) ->
             Out(<<python_exe, "-m">> \o Rest(normalized, 2))
        [] StartsWith(normalized, <<"python3", "-m">>) ->
             Out(<<python_exe, "-m">> \o Rest(normalized, 2))
        [] StartsWith(normalized, <<"python">>) ->
             Out(<<python_exe>> \o Rest(normalized, 1))
        [] StartsWith(normalized, <<"python3">>) ->
             Out(<<python_exe>> \o Rest(normalized, 1))
        [] normalized \in {<<"python">>, <<"python3">>} -> Out(<<python_exe>>)
        [] OTHER -> Out(normalized)

InitNormalize ==
  /\ extracted_path = TRUE
  /\ pc = "normalize"
  /\ iteration = 0
  /\ messages = <<>>
  /\ pending = <<>>
  /\ current = <<>>
  /\ execution_log = <<>>
  /\ test_code = ""
  /\ result = NoResult
  /\ engine_calls = 0
  /\ sent_messages = <<>>
  /\ dispatched = <<>>
  /\ fault = {}
  /\ cf_call \in {[command |-> c] : c \in Commands}
  /\ cf_ret = NoCall
  /\ host = HostAtStart
  /\ cancel_requested = FALSE

\* normalized_command = self._normalize_python_command(command)
Normalize ==
  /\ pc = "normalize"
  /\ cf_ret = NoCall
  /\ cf_ret' = [normalized_command |-> _normalize_python_command(cf_call.command)]
  /\ UNCHANGED <<loop_vars, cf_call, host, cancel_requested>>

NextNormalize == Normalize

SpecNormalize == InitNormalize /\ [][NextNormalize]_vars

(***************************************************************************)
(* The search path run_command gives the process: the directory, its      *)
(* subdirectories and the PYTHONPATH the service was started with          *)
(***************************************************************************)
\* os.listdir(cwd) holds at most MaxItems entries
MaxItems == 3
\* the PYTHONPATH of the service holds at most MaxExisting entries
MaxExisting == 2

\* the entries of a directory: name and whether os.path.isdir holds
Items ==
  {[name |-> n, isdir |-> TRUE] :
     n \in {"app", "tests", ".git", ".venv", "__pycache__", "node_modules"}}
  \cup {[name |-> "main.py", isdir |-> FALSE]}

ExistingEntries == {"/opt/lib", "/srv/site"}

\* the sequences of distinct elements of a set, up to a length
Listings(set, n) ==
  {q \in UNION {[1..k -> set] : k \in 0..n} :
     \A i, j \in 1..Len(q) : i # j => q[i] # q[j]}

\* item.startswith(".")
startswith_dot(name) == name \in {".git", ".venv"}

\* a test that lets the directories of tools through
IsPackageDirWithNoise(item) == item.isdir /\ ~startswith_dot(item.name)

\* the condition of the for loop over os.listdir(cwd)
IsPackageDir(item) ==
  /\ item.isdir
  /\ ~startswith_dot(item.name)
  /\ item.name \notin {"__pycache__", "node_modules", ".git"}

\* pythonpath_dirs after the for loop
RECURSIVE pythonpath_dirs(_, _)
pythonpath_dirs(cwd, listing) ==
  IF listing = <<>> THEN <<cwd>>
  ELSE LET n == Len(listing)
           before == pythonpath_dirs(cwd, SubSeq(listing, 1, n - 1))
       IN  IF IsPackageDir(listing[n])
             THEN Append(before, cwd \o <<listing[n].name>>)
             ELSE before

\* env["PYTHONPATH"]: the new entries, then the existing ones if there are any
PYTHONPATH(cwd, listing, existing) == pythonpath_dirs(cwd, listing) \o existing

InitSearchPath ==
  /\ extracted_path = TRUE
  /\ pc = "search_path"
  /\ iteration = 0
  /\ messages = <<>>
  /\ pending = <<>>
  /\ current = <<>>
  /\ execution_log = <<>>
  /\ test_code = ""
  /\ result = NoResult
  /\ engine_calls = 0
  /\ sent_messages = <<>>
  /\ dispatched = <<>>
  /\ fault = {}
  /\ cf_call \in {[cwd |-> c, listing |-> l, existing |-> e] :
                    c \in {RootDir, RootDir \o <<"tests">>},
                    l \in Listings(Items, MaxItems),
                    e \in Listings(ExistingEntries, MaxExisting)}
  /\ cf_ret = NoCall
  /\ host = HostAtStart
  /\ cancel_requested = FALSE

\* run_command up to subprocess.run: the environment of the process
SearchPath ==
  /\ pc = "search_path"
  /\ cf_ret = NoCall
  /\ cf_ret' = [PYTHONPATH |-> PYTHONPATH(cf_call.cwd, cf_call.listing, cf_call.existing)]
  /\ UNCHANGED <<loop_vars, cf_call, host, cancel_requested>>

NextSearchPath == SearchPath

SpecSearchPath == InitSearchPath /\ [][NextSearchPath]_vars

(***************************************************************************)
(* Two requests served side by side: each has its own TestGenerator, its   *)
(* own directory, messages, execution_log and test_code; the tool calls of *)
(* both act on the one machine                                             *)
(***************************************************************************)
\* each request dispatches at most MaxSteps tool calls
MaxSteps == 2

\* the words of the commands drawn
WordsOf(command) ==
  IF command = InstallCommand
    THEN [padded |-> FALSE, words |-> <<"pip", "install", "requests">>]
    ELSE [padded |-> FALSE, words |-> <<"python", "-m", "pytest", "test_generated.py">>]

\* the tool calls a request makes
RequestCalls ==
  {Call("write_file", Args([NoArgs EXCEPT !.file_path = fp, !.content = PlainContent])) :
     fp \in {PlainPath, "../req2/helpers.py"}}
  \cup {Call("write_file", Args([NoArgs EXCEPT !.file_path = TestPath,
                                               !.content = TestContent]))}
  \cup {Call("run_command", Args([NoArgs EXCEPT !.command = c])) :
          c \in {InstallCommand, TestCommand}}
  \cup {Call("read_file", Args([NoArgs EXCEPT !.file_path = PlainPath]))}

RequestEnvs == {Env("ok", PassedOut, "", "ok"), Env("fail", "", NoModuleErr, "ok")}

\* the packages a command that ran installs: what follows "-m pip install" of
\* the interpreter every request is given (sys.executable)
Installed(command) ==
  LET words == _normalize_python_command(WordsOf(command)).words
  IN  IF StartsWith(words, <<python_exe, "-m", "pip", "install">>)
        THEN {words[i] : i \in 5..Len(words)}
        ELSE {}

\* the machine after request r made the call that returned ret
HostAfter(h, r, call, ret) ==
  CASE "fs_write" \in ret.ops ->
         LET full_path == Resolve(join(Root(r), call.arguments.f.file_path), <<>>)
         IN  IF full_path \in HostPaths
               THEN [h EXCEPT !.files[full_path] = call.arguments.f.content]
               ELSE h
    [] call.name = "run_command" /\ "spawn" \in ret.ops /\ ret.res.success ->
         [h EXCEPT !.packages = @ \cup Installed(call.arguments.f.command)]
    [] OTHER -> h

InitRequests ==
  /\ extracted_path = [r \in Requests |-> Root(r)]
  /\ pc = [r \in Requests |-> "loop"]
  /\ iteration = [r \in Requests |-> 0]
  /\ messages = [r \in Requests |-> <<>>]
  /\ pending = <<>>
  /\ current = <<>>
  /\ execution_log = [r \in Requests |-> <<>>]
  /\ test_code = [r \in Requests |-> ""]
  /\ result = [r \in Requests |-> NoResult]
  /\ engine_calls = 0
  /\ sent_messages = <<>>
  /\ dispatched = <<>>
  /\ fault = {}
  /\ InitCall

\* request r has a tool call dispatched: call_function, the tool message, the
\* collection of test code and the log entry
RequestDispatch(r) ==
  /\ pc[r] = "loop"
  /\ iteration[r] < MaxSteps
  /\ \E call \in RequestCalls, env \in RequestEnvs :
       LET tool_call == [id |-> iteration[r] + 1, name |-> call.name,
                         arguments |-> call.arguments]
           ret == call_function(call.name, call.arguments, env)
           function_result == ret.res
       IN  /\ messages' = [messages EXCEPT
                              ![r] = Append(@, ToolMessage(tool_call, function_result))]
           /\ test_code' = [test_code EXCEPT
                               ![r] = IF call.name = "write_file"
                                        THEN CollectTestCode(@, call.arguments,
                                                             function_result, env).test_code
                                        ELSE @]
           /\ execution_log' = [execution_log EXCEPT
                                   ![r] = IF call.name \in LoggedFunctions
                                            THEN Append(@, LogEntry(call.name, call.arguments,
                                                                    function_result))
                                            ELSE @]
           /\ host' = HostAfter(host, r, call, ret)
  /\ iteration' = [iteration EXCEPT ![r] = @ + 1]
  /\ UNCHANGED <<extracted_path, pc, pending, current, result, engine_calls,
                 sent_messages, dispatched, fault, cf_call, cf_ret, cancel_requested>>

\* request r returns its result
RequestReturn(r) ==
  /\ pc[r] = "loop"
  /\ pc' = [pc EXCEPT ![r] = "done"]
  /\ result' = [result EXCEPT ![r] = FinalResult(test_code[r], execution_log[r])]
  /\ UNCHANGED <<extracted_path, iteration, messages, pending, current, execution_log,
                 test_code, engine_calls, sent_messages, dispatched, fault, call_vars>>

NextRequests == \E r \in Requests : RequestDispatch(r) \/ RequestReturn(r)

SpecRequests == InitRequests /\ [][NextRequests]_vars

(***************************************************************************)
(* The routes /analyze and /generate-tests: upload, extraction, analysis,  *)
(* test generation and the finally block                                   *)
(***************************************************************************)
\* the upload is read in at most MaxChunks chunks
MaxChunks == 3

Routes ==
  {[route |-> "generate_tests", include_tests |-> TRUE],
   [route |-> "analyze", include_tests |-> TRUE],
   [route |-> "analyze", include_tests |-> FALSE]}

\* the response of a route: a raised HTTPException or a JSONResponse
Response(kind, status_code) == [kind |-> kind, status_code |-> status_code]

InitRoute ==
  /\ extracted_path = FALSE
  /\ pc = "validate"
  /\ iteration = 0
  /\ messages = <<>>
  /\ pending = <<>>
  /\ current = <<>>
  /\ execution_log = <<>>
  /\ test_code = ""
  /\ result = NoResult
  /\ engine_calls = 0
  /\ sent_messages = <<>>
  /\ dispatched = <<>>
  /\ fault = {}
  /\ cf_call \in Routes
  /\ cf_ret = NoCall
  /\ host = [archive |-> "none", directory |-> "none", removable |-> TRUE]
  /\ cancel_requested = FALSE

\* the try block is left: an HTTPException is raised again, any other
\* exception becomes a JSONResponse with status 500
Leave(response) ==
  /\ result' = response
  /\ pc' = "finally"

\* the checks of the file name
RouteValidate ==
  /\ pc = "validate"
  /\ \/ Leave(Response("HTTPException", 400)) /\ fault' = {"filename"}
     \/ pc' = "upload" /\ UNCHANGED <<result, fault>>
  /\ UNCHANGED <<extracted_path, iteration, messages, pending, current, execution_log,
                 test_code, engine_calls, sent_messages, dispatched, call_vars>>

\* the archive is created under the temporary directory and written chunk by
\* chunk; then the description is checked
RouteUpload ==
  /\ pc = "upload"
  /\ host' = [host EXCEPT !.archive = "present"]
  /\ \/ /\ iteration < MaxChunks
        /\ iteration' = iteration + 1
        /\ UNCHANGED <<pc, result, fault>>
     \/ /\ iteration' = iteration
        /\ \/ Leave(Response("HTTPException", 400)) /\ fault' = {"size"}
           \/ Leave(Response("JSONResponse", 500)) /\ fault' = {"upload"}
           \/ Leave(Response("HTTPException", 400)) /\ fault' = {"description"}
           \/ pc' = "extract" /\ UNCHANGED <<result, fault>>
  /\ UNCHANGED <<extracted_path, messages, pending, current, execution_log, test_code,
                 engine_calls, sent_messages, dispatched, cf_call, cf_ret,
                 cancel_requested>>

\* CodeAnalyzer(temp_zip_path).extract_zip(): mkdtemp, then extractall
RouteExtract ==
  /\ pc = "extract"
  /\ \/ /\ Leave(Response("JSONResponse", 500))
        /\ fault' = {"mkdtemp"}
        /\ UNCHANGED <<extracted_path, host>>
     \/ /\ extracted_path' = TRUE
        /\ host' = [host EXCEPT !.directory = "present"]
        /\ \/ Leave(Response("JSONResponse", 500)) /\ fault' = {"extractall"}
           \/ pc' = "analysis" /\ UNCHANGED <<result, fault>>
  /\ UNCHANGED <<iteration, messages, pending, current, execution_log, test_code,
                 engine_calls, sent_messages, dispatched, cf_call, cf_ret,
                 cancel_requested>>

\* the analysis of the code, AIAnalyzer() and, in /analyze, the AI analysis
RouteAnalysis ==
  /\ pc = "analysis"
  /\ \/ Leave(Response("JSONResponse", 500)) /\ fault' = {"analysis"}
     \/ Leave(Response("HTTPException", 500)) /\ fault' = {"ai_init"}
     \/ /\ cf_call.route = "analyze"
        /\ Leave(Response("HTTPException", 500))
        /\ fault' = {"ai_analysis"}
     \/ /\ pc' = IF cf_call.include_tests THEN "tests" ELSE "finally"
        /\ result' = IF cf_call.include_tests THEN result
                                              ELSE Response("JSONResponse", 200)
        /\ fault' = fault
  /\ UNCHANGED <<extracted_path, iteration, messages, pending, current, execution_log,
                 test_code, engine_calls, sent_messages, dispatched, call_vars>>

\* TestGenerator(...).generate_and_execute_tests(...): the commands it runs
\* may leave entries in the directory that the service is not allowed to
\* remove; a failure is an HTTPException in /generate-tests and a part of the
\* response in /analyze
RouteTests ==
  /\ pc = "tests"
  /\ \E removable \in BOOLEAN : host' = [host EXCEPT !.removable = removable]
  /\ \/ Leave(Response("JSONResponse", 200)) /\ fault' = fault
     \/ /\ Leave(IF cf_call.route = "generate_tests"
                    THEN Response("HTTPException", 500)
                    ELSE Response("JSONResponse", 200))
        /\ fault' = {"tests"}
  /\ UNCHANGED <<extracted_path, iteration, messages, pending, current, execution_log,
                 test_code, engine_calls, sent_messages, dispatched, cf_call, cf_ret,
                 cancel_requested>>

\* shutil.rmtree inside try / except Exception: pass
rmtree(directory, removable) ==
  IF directory = "present" /\ removable THEN "removed" ELSE directory

\* finally: code_analyzer.cleanup() when there is an analyzer, then the
\* archive is removed when it exists
RouteFinally ==
  /\ pc = "finally"
  /\ host' = [host EXCEPT
                !.directory = IF extracted_path THEN rmtree(@, host.removable) ELSE @,
                !.archive = IF @ = "present" THEN "removed" ELSE @]
  /\ extracted_path' = FALSE
  /\ pc' = "completed"
  /\ UNCHANGED <<iteration, messages, pending, current, execution_log, test_code,
                 result, engine_calls, sent_messages, dispatched, fault, cf_call, cf_ret,
                 cancel_requested>>

NextRoute ==
  RouteValidate \/ RouteUpload \/ RouteExtract \/ RouteAnalysis \/ RouteTests
  \/ RouteFinally

SpecRoute == InitRoute /\ [][NextRoute]_vars

(***************************************************************************)
(* Properties                                                              *)
(***************************************************************************)
\* an Assistant turn that carries tool calls
HasToolCalls(m) == m.role = "assistant" /\ "tool_calls" \in DOMAIN m

\* the turns from an Assistant turn at index a up to the next Assistant turn
SegmentEnd(a) ==
  IF \E j \in (a + 1)..Len(messages) : messages[j].role = "assistant"
    THEN CHOOSE j \in (a + 1)..Len(messages) :
           /\ messages[j].role = "assistant"
           /\ \A i \in (a + 1)..(j - 1) : messages[i].role # "assistant"
    ELSE Len(messages) + 1

\* the ToolResult turns that answer the Assistant turn at index a
ResultTurns(a) == {j \in (a + 1)..(SegmentEnd(a) - 1) : messages[j].role = "tool"}

\* each tool call of the turn at index a has exactly one ToolResult turn with
\* its id, and no other ToolResult turn follows the turn
Answered(a) ==
  /\ \A i \in 1..Len(messages[a].tool_calls) :
       Cardinality({j \in ResultTurns(a) :
                      messages[j].tool_call_id = messages[a].tool_calls[i]}) = 1
  /\ Cardinality(ResultTurns(a)) = Len(messages[a].tool_calls)

AllAnswered == \A a \in 1..Len(messages) : HasToolCalls(messages[a]) => Answered(a)

\* C1: one run issues at most max_iterations reasoning-engine calls, whatever
\* the engine and the tools do.
C1_AtMostCapEngineCalls == engine_calls <= max_iterations

\* C1 witness: a run that made as many engine calls as the cap allows and ended
C1_Witness == pc = "done" /\ engine_calls = max_iterations

\* C2: whenever the loop is at its head (the moment of an engine call after
\* the first), each tool call of every earlier Assistant turn has exactly one
\* ToolResult turn with its id among the turns that answer that Assistant turn.
C2_EveryCallAnsweredOnce == pc = "loop" => AllAnswered

\* C2 witness: the loop is about to call the engine a third time, after a
\* response of two tool calls and one of a single tool call
C2_Witness ==
  /\ pc = "loop"
  /\ LoopCondition
  /\ engine_calls = 2
  /\ \E a \in 1..Len(messages) :
       HasToolCalls(messages[a]) /\ Len(messages[a].tool_calls) = 2

\* index of the Assistant turn whose tool calls are being dispatched
LastAssistant == CHOOSE a \in 1..Len(messages) :
                   /\ messages[a].role = "assistant"
                   /\ \A j \in (a + 1)..Len(messages) : messages[j].role # "assistant"

\* the ids handed to call_function in the current pass of the loop, in order
StartedIds ==
  LET ThisPass(d) == d.iteration = iteration
      started == SelectSeq(dispatched, ThisPass)
  IN  [i \in 1..Len(started) |-> started[i].id]

\* the ids of the ToolResult turns after the last Assistant turn, in order
AnsweredIds ==
  [i \in 1..(Len(messages) - LastAssistant) |-> messages[LastAssistant + i].tool_call_id]

\* C3: the tool calls of one response are dispatched one at a time in the
\* order the engine gave them, the ToolResult turn of a call is in the
\* conversation (after the Assistant turn) before the next call is dispatched,
\* and at most one tool call is inside call_function.
C3_DispatchedInOrderOneAtATime ==
  /\ Len(current) <= 1
  /\ pc \in {"dispatch", "in_call"} =>
       LET calls == messages[LastAssistant].tool_calls
       IN  /\ Len(StartedIds) <= Len(calls)
           /\ StartedIds = SubSeq(calls, 1, Len(StartedIds))
           /\ Len(StartedIds) = Len(AnsweredIds) + Len(current)
           /\ AnsweredIds = SubSeq(calls, 1, Len(AnsweredIds))
           /\ \A j \in (LastAssistant + 1)..Len(messages) : messages[j].role = "tool"
           /\ pc = "in_call" => current[1].id = calls[Len(StartedIds)]

\* C3 witness: the second tool call of a response is inside call_function and
\* the conversation ends with the ToolResult turn of the first
C3_Witness ==
  /\ pc = "in_call"
  /\ current[1].id = 2
  /\ messages[Len(messages)].role = "tool"
  /\ messages[Len(messages)].tool_call_id = 1
  /\ messages[Len(messages) - 1].role = "assistant"

\* C4 as claimed: a failure local to one tool call (malformed or unparsable
\* arguments, a failed or timed-out operation) never ends the loop: the except
\* clause of the loop is not reached from a tool call, and every tool call of
\* every response has its ToolResult turn when the run ends.
C4_ToolFailureNeverEndsLoop ==
  pc = "done" => (fault \cap {"arguments", "collect"} = {} /\ AllAnswered)

\* the narrative of the result holds the diagnostic of a failed iteration
HasIterationDiagnostic ==
  \E i \in 1..Len(result.execution_result.log) :
    result.execution_result.log[i].part = "Iteration failed:"

\* C5 as claimed: after a failed engine call the loop is left at once and the
\* result carries the artifact retained so far, the verdict computed from the
\* execution log and a diagnostic of the failure in its log.
C5_EngineFailureReturnsPartial ==
  /\ "engine" \in fault => (pc \in {"summarize", "done"} /\ current = <<>>)
  /\ (pc = "done" /\ "engine" \in fault) =>
       /\ result.generated_test_code = test_code
       /\ ~IsRaised(_summarize_execution_results(execution_log))
       /\ result.execution_result.tests_passed =
            _summarize_execution_results(execution_log).tests_passed
       /\ HasIterationDiagnostic

\* C6 as claimed: every run ends with a mapping of generated_test_code (a
\* text) and execution_result {tests_passed: a boolean, log: a text}, and with
\* tests_passed false when an internal fault or a missing path ended it.
C6_AlwaysWellFormedResult ==
  pc = "done" =>
    /\ DOMAIN result = {"generated_test_code", "execution_result"}
    /\ IsStr(result.generated_test_code)
    /\ result.execution_result.tests_passed \in BOOLEAN
    /\ Len(result.execution_result.log) >= 1
    /\ fault \cap {"summarize", "no_path"} # {} =>
         ~result.execution_result.tests_passed

\* the loop was left because the cap was reached
CapHit == pc = "done" /\ iteration = max_iterations

\* C7 as claimed: when the cap ends the loop, the result reports the artifact
\* and its log holds a diagnostic noting that the cap was hit.
C7_CapHitIsReported ==
  CapHit =>
    /\ result.generated_test_code = test_code
    /\ \E i \in 1..Len(result.execution_result.log) :
         result.execution_result.log[i].part = "Maximum iterations reached"

\* call_function has returned
Returned == cf_ret # NoCall

\* C8 as claimed: a name outside the six advertised kinds is not dispatched:
\* call_function returns success false with the unknown-function error.
C8_OnlySixKindsDispatch ==
  (Returned /\ cf_call.name \notin SchemaNames) =>
    /\ cf_ret.ops = {}
    /\ cf_ret.res.success = FALSE
    /\ cf_ret.res.error = "Unknown function"

\* the type the schema declares for a keyword is not the type of the value
WrongType(k, v) ==
  v # ABSENT /\ (IF k \in SchemaObjectFields THEN ~IsDict(v) ELSE ~IsStr(v))

\* the arguments fail the validation the schema describes
FailsValidation(function_name, f) ==
  \/ \E k \in SchemaRequired(function_name) : f[k] = ABSENT
  \/ \E k \in Params(function_name) : WrongType(k, f[k])
  \/ \E k \in Params(function_name) :
       /\ SchemaEnum(function_name, k) # {}
       /\ IsStr(f[k])
       /\ f[k] \notin SchemaEnum(function_name, k)

\* C9 as claimed: arguments that fail validation give a result with success
\* false and the operation (process, file, HTTP request) is not invoked.
C9_InvalidArgumentsInvokeNothing ==
  (/\ Returned
   /\ cf_call.name \in SchemaNames
   /\ cf_call.arguments.kind = "mapping"
   /\ FailsValidation(cf_call.name, cf_call.arguments.f)) =>
    /\ cf_ret.ops = {}
    /\ "success" \in DOMAIN cf_ret.res
    /\ cf_ret.res.success = FALSE

\* C10 as claimed: every result of call_function has a boolean field success.
C10_ResultHasSuccess ==
  Returned => ("success" \in DOMAIN cf_ret.res /\ cf_ret.res.success \in BOOLEAN)

\* a log entry of a run_command call
IsCommandEntry(entry) == "function" \in DOMAIN entry /\ entry.function = "run_command"

\* a run_command entry whose command text contains a test keyword
IsTestCommandEntry(entry) ==
  IsCommandEntry(entry) /\ IsStr(entry.command) /\ is_test_command(entry.command)

\* what the command printed, as the classifier reads it: stdout, or stderr
\* when stdout is blank
OutputOf(entry) ==
  IF ~Blank(ResGet(entry.result, "stdout", ""))
    THEN ResGet(entry.result, "stdout", "")
    ELSE ResGet(entry.result, "stderr", "")

ExitStatus(entry) == ResGet(entry.result, "returncode", -1)

\* the failure patterns of a test output: a number followed by "failed", or
\* the word "failed" together with "test"
MatchesFailurePattern(output) == output \in {MixedOut, FailedWordOut}

\* the output reports passed tests
ReportsPassed(output) == output \in {PassedOut, MixedOut}

\* a test command that the classifier has to count as failed
ClassifiedFailed(entry) ==
  IsTestCommandEntry(entry)
  /\ (ExitStatus(entry) # 0 \/ MatchesFailurePattern(OutputOf(entry)))

\* the log of the classifier has been summarized into the result
Classified == pc = "classify" /\ result # NoResult

Verdict == result.execution_result.tests_passed

\* C11: a log with a test command that ended with a non-zero exit status has
\* the verdict tests_passed = false, whatever the command printed.
C11_NonZeroExitFails ==
  (/\ Classified
   /\ \E i \in 1..Len(execution_log) :
        IsTestCommandEntry(execution_log[i]) /\ ExitStatus(execution_log[i]) # 0) =>
    ~Verdict

\* C11 witness: a test command that printed "3 passed" and exited with 1,
\* followed by a test command that passed
C11_Witness ==
  /\ Classified
  /\ Len(execution_log) = 2
  /\ IsTestCommandEntry(execution_log[1])
  /\ ExitStatus(execution_log[1]) = 1
  /\ execution_log[1].result.stdout = PassedOut
  /\ IsTestCommandEntry(execution_log[2])
  /\ ExitStatus(execution_log[2]) = 0
  /\ ~Verdict

\* C12: a log with a test command that exited with 0 and whose output matches
\* a failure pattern has the verdict tests_passed = false, also when that
\* output reports passed tests.
C12_FailurePatternFails ==
  (/\ Classified
   /\ \E i \in 1..Len(execution_log) :
        /\ IsTestCommandEntry(execution_log[i])
        /\ ExitStatus(execution_log[i]) = 0
        /\ MatchesFailurePattern(OutputOf(execution_log[i]))) =>
    ~Verdict

\* C12 witness: exit status 0 with "3 passed, 1 failed", and in another log
\* exit status 0 with the word pattern
C12_Witness ==
  /\ Classified
  /\ Len(execution_log) = 2
  /\ IsTestCommandEntry(execution_log[1])
  /\ ExitStatus(execution_log[1]) = 0
  /\ OutputOf(execution_log[1]) \in {MixedOut, FailedWordOut}
  /\ IsTestCommandEntry(execution_log[2])
  /\ OutputOf(execution_log[2]) = PassedOut
  /\ ~Verdict

\* C13 as claimed: a log whose test commands all exited with 0 and printed no
\* failure pattern, one of them reporting passed tests, has the verdict
\* tests_passed = true.
C13_CleanTestsPass ==
  (/\ Classified
   /\ \A i \in 1..Len(execution_log) :
        IsTestCommandEntry(execution_log[i]) =>
          (/\ ExitStatus(execution_log[i]) = 0
           /\ ~MatchesFailurePattern(OutputOf(execution_log[i])))
   /\ \E i \in 1..Len(execution_log) :
        IsTestCommandEntry(execution_log[i])
        /\ ReportsPassed(OutputOf(execution_log[i]))) =>
    Verdict

\* a successful check_api_endpoint entry
IsProbe(entry) ==
  /\ "function" \in DOMAIN entry
  /\ entry.function = "check_api_endpoint"
  /\ ResGet(entry.result, "success", FALSE)

\* C14: failure is sticky: when a test command of the log is classified
\* failed, the verdict is tests_passed = false whatever entries follow it.
C14_FailureIsSticky ==
  Classified =>
    \A i \in 1..Len(execution_log) :
      ClassifiedFailed(execution_log[i]) => ~Verdict

\* C14 witness: a failed test command followed by a successful probe and a
\* test command that passed
C14_Witness ==
  /\ Classified
  /\ Len(execution_log) = 3
  /\ ClassifiedFailed(execution_log[1])
  /\ IsProbe(execution_log[2])
  /\ IsTestCommandEntry(execution_log[3])
  /\ ~ClassifiedFailed(execution_log[3])
  /\ ReportsPassed(OutputOf(execution_log[3]))

\* a successful run_command entry that is no test command
IsNoise(entry) ==
  /\ IsCommandEntry(entry)
  /\ ResGet(entry.result, "success", FALSE)
  /\ ~IsTestCommandEntry(entry)

WithoutNoise(log) == LET Kept(entry) == ~IsNoise(entry) IN SelectSeq(log, Kept)

\* C15 as claimed: taking the successful non-test commands out of a log
\* changes neither the verdict nor the narrative of the classifier.
C15_NoiseChangesNothing ==
  Classified =>
    _summarize_execution_results(execution_log) =
      _summarize_execution_results(WithoutNoise(execution_log))

WithoutProbes(log) == LET Kept(entry) == ~IsProbe(entry) IN SelectSeq(log, Kept)

HasTestCommand(log) == \E i \in 1..Len(log) : IsTestCommandEntry(log[i])

\* C16: a successful probe changes the verdict only in a log without a test
\* command: a log with a test command has the verdict it has without its
\* successful probes, wherever they stand; and a probe never makes it false.
C16_ProbeCountsOnlyWithoutTests ==
  Classified =>
    LET without == FinalResult(test_code, WithoutProbes(execution_log))
    IN  /\ HasTestCommand(execution_log) =>
             Verdict = without.execution_result.tests_passed
        /\ Verdict # without.execution_result.tests_passed =>
             (Verdict /\ ~HasTestCommand(execution_log))

\* C16 witness: a successful probe before a test command with unclear output
\* and exit status 0, and the verdict is the one of the test command
C16_Witness ==
  /\ Classified
  /\ Len(execution_log) = 3
  /\ IsProbe(execution_log[1])
  /\ IsTestCommandEntry(execution_log[2])
  /\ OutputOf(execution_log[2]) = UnclearOut
  /\ IsProbe(execution_log[3])
  /\ Verdict

\* C17 as claimed: in every step of a run, the final response included, the
\* retained test code is replaced only when none is retained yet or the new
\* one is strictly longer.
C17_ArtifactReplacedOnlyByLonger ==
  [][test_code' # test_code =>
       (~Truthy(test_code) \/ PyLen(test_code') > PyLen(test_code))]_vars

\* the write_file calls the collector has seen
WriteAt(i) == dispatched[i]
ContentAt(i) == WriteAt(i).arguments.f.content
Succeeded(i) == ResGet(WriteAt(i).result, "success", FALSE)

\* the written content is a candidate by the path or by the content heuristic
Qualifies(i) ==
  is_test_file(WriteAt(i).arguments.f.file_path) \/ HasTestKeyword(ContentAt(i))

C19_OnlySuccessfulWritesRetained ==
  (pc = "collect" /\ Truthy(test_code)) =>
    \E i \in 1..Len(dispatched) : Succeeded(i) /\ ContentAt(i) = test_code

\* C20 as claimed: the retained test code is the content of a write_file call
\* that matches the path heuristic or the content heuristic.
C20_OnlyQualifyingWritesRetained ==
  (pc = "collect" /\ Truthy(test_code)) =>
    \E i \in 1..Len(dispatched) : Qualifies(i) /\ ContentAt(i) = test_code

\* the turn is the ToolResult of a successful write_file to the path
IsWriteResult(m, file_path) ==
  /\ m.role = "tool"
  /\ ResGet(m.content, "success", FALSE)
  /\ ResGet(m.content, "file_path", "") = file_path
  /\ ResGet(m.content, "message", "") = "File written"

\* the run of the end-to-end example: three iterations of one tool call each
\* (helpers.py without test markers, test_generated.py with the test, the
\* test command with exit status 0 and passed tests), then the end of the run
EndToEndRun ==
  /\ pc = "done"
  /\ fault = {}
  /\ Len(messages) \in {8, 9}
  /\ \A k \in {3, 5, 7} : HasToolCalls(messages[k]) /\ Len(messages[k].tool_calls) = 1
  /\ IsWriteResult(messages[4], PlainPath)
  /\ IsWriteResult(messages[6], TestPath)
  /\ messages[8].role = "tool"
  /\ execution_log = <<[function |-> "run_command", command |-> TestCommand,
                        result |-> [success |-> TRUE, stdout |-> PassedOut,
                                    stderr |-> "", returncode |-> 0]]>>
  /\ Len(messages) = 9 => (messages[9].role = "assistant" /\ messages[9].content = "")

\* C21 as claimed: the end-to-end run returns the content written to
\* test_generated.py as generated_test_code, and tests_passed = true.
C21_EndToEndExample ==
  EndToEndRun =>
    /\ result.generated_test_code = TestContent
    /\ result.execution_result.tests_passed

\* a write_file call of the run succeeded
SomeWriteSucceeded ==
  \E k \in 1..Len(messages) :
    /\ messages[k].role = "tool"
    /\ ResGet(messages[k].content, "message", "") = "File written"
    /\ ResGet(messages[k].content, "success", FALSE)

\* the warning of a run in which no write_file call was made
NoWriteWarning == Part("Warning: No test code was generated or collected.", "")

\* C22 as claimed: a run that ends with an empty artifact although a
\* write_file call succeeded has a log that starts with a warning other than
\* the warning of a run without any write_file call.
C22_DistinguishableWarning ==
  (/\ pc = "done"
   /\ "summarize" \notin fault
   /\ result.generated_test_code = ""
   /\ SomeWriteSucceeded) =>
    /\ Head(result.execution_result.log).part =
         "Warning: write_file was called but no test code was collected."
    /\ Head(result.execution_result.log) # NoWriteWarning

\* the tool calls that call_function has returned from, in dispatch order
CompletedCalls ==
  IF current = <<>> THEN dispatched ELSE SubSeq(dispatched, 1, Len(dispatched) - 1)

\* those of the six advertised kinds
CompletedOfSixKinds ==
  LET OfSix(d) == d.name \in SchemaNames IN SelectSeq(CompletedCalls, OfSix)

\* the entries of the log that stand for a tool call
CallEntries ==
  LET OfCall(entry) == "function" \in DOMAIN entry IN SelectSeq(execution_log, OfCall)

OnePerCall ==
  /\ Len(CallEntries) = Len(CompletedOfSixKinds)
  /\ \A i \in 1..Len(CallEntries) : CallEntries[i].function = CompletedOfSixKinds[i].name

\* the log only grows at its end
LogOnlyAppended ==
  /\ Len(execution_log') >= Len(execution_log)
  /\ SubSeq(execution_log', 1, Len(execution_log)) = execution_log

\* C23 as claimed: the execution log holds one entry for each dispatched tool
\* call of the six kinds, in dispatch order, and entries are never changed or
\* removed.
C23_OneEntryPerCall == [](pc \in {"loop", "dispatch", "summarize", "done"} => OnePerCall)
                         /\ [][LogOnlyAppended]_vars

\* the part of C23 about entries that are never changed or removed
C23_AppendOnlyPart == [][LogOnlyAppended]_vars

\* _normalize_python_command has returned
Normalized == pc = "normalize" /\ cf_ret # NoCall

GivenWords == cf_call.command.words
ExecutedWords == cf_ret.normalized_command.words

\* the installer: pip or a suffixed variant of it
Installers == {"pip", "pip3", "pip3.11"}
InterpreterNames == {"python", "python3"}

\* C24 as claimed: installer followed by install becomes P -m pip install
\* and the rest; pytest becomes P -m pytest and the rest; a leading python or
\* python3 is replaced by P; the rest is carried over unchanged.
C24_RewritesToInterpreter ==
  Normalized =>
    /\ (/\ GivenWords[1] \in Installers
        /\ Len(GivenWords) >= 2
        /\ GivenWords[2] = "install") =>
         ExecutedWords = <<python_exe, "-m", "pip", "install">> \o Rest(GivenWords, 2)
    /\ GivenWords[1] = "pytest" =>
         ExecutedWords = <<python_exe, "-m", "pytest">> \o Rest(GivenWords, 1)
    /\ GivenWords[1] \in InterpreterNames =>
         ExecutedWords = <<python_exe>> \o Rest(GivenWords, 1)

\* the command matches one of the three rewrite patterns of the claim
MatchesRewritePattern(words) ==
  \/ words[1] \in Installers /\ Len(words) >= 2 /\ words[2] = "install"
  \/ words[1] = "pytest"
  \/ words[1] \in InterpreterNames

IsTimedOut(m) ==
  /\ m.role = "tool"
  /\ \/ ResGet(m.content, "stderr", "") = "Command timed out"
     \/ ResGet(m.content, "error", "") = "Execution timed out"

\* C26: when call_function returns from a run_command or execute_code call
\* whose subprocess exceeded its timeout, the ToolResult appended to the
\* conversation has success false and the timed-out text, no handler of the
\* loop runs, and the loop goes on: to the next tool call of the response, or
\* to its next iteration.
C26_TimeoutDoesNotEndLoop ==
  [][(/\ pc = "in_call"
      /\ Len(messages') = Len(messages) + 1
      /\ IsTimedOut(messages'[Len(messages')])) =>
       /\ messages'[Len(messages')].content.success = FALSE
       /\ messages'[Len(messages')].tool_call_id = current[1].id
       /\ fault' = fault
       /\ IF pending = <<>>
            THEN pc' = "loop" /\ iteration' = iteration + 1
            ELSE pc' = "dispatch" /\ iteration' = iteration]_vars

\* C26 witness: a run_command and an execute_code call timed out in the first
\* iteration and the engine was called again
C26_Witness ==
  /\ pc = "dispatch"
  /\ engine_calls = 2
  /\ Len(messages) >= 6
  /\ IsTimedOut(messages[4])
  /\ "stderr" \in DOMAIN messages[4].content
  /\ IsTimedOut(messages[5])
  /\ "error" \in DOMAIN messages[5].content
  /\ HasToolCalls(messages[6])

(***************************************************************************)
(* C27, C28: where commands run and which files the file operations touch  *)
(***************************************************************************)
\* a call of the named operation whose arguments bound has returned
ReturnedFrom(function_name) ==
  /\ pc = "call"
  /\ cf_ret # NoCall
  /\ cf_call.name = function_name
  /\ Binds(function_name, cf_call.arguments)

GivenDir == cf_call.arguments.f.working_dir
IsRelativeDir(w) == IsStr(w) /\ w # "" /\ Segments(w)[1] # "/"
DirMissing == cf_call.env.outcome = "missing"

TargetFile == Resolve(cf_ret.at, <<>>)
TouchesFile == cf_ret.ops \cap {"fs_read", "fs_write"} # {}

\* C28: read_file and write_file are confined to the request's working
\* directory: whatever path is given (relative, with parent segments, absolute),
\* no file outside the directory is read, created or overwritten, and a path
\* that resolves outside yields a failure result
C28_FileAccessConfined ==
  \A function_name \in {"read_file", "write_file"} :
    (ReturnedFrom(function_name) /\ IsStr(cf_call.arguments.f.file_path)) =>
      (~IsPrefix(RootDir, TargetFile) =>
         (~TouchesFile /\ cf_ret.res.success = FALSE))

(***************************************************************************)
(* C29: two requests side by side                                          *)
(***************************************************************************)
Other(r) == 3 - r

\* what belongs to request r
OwnedBy(r) == <<extracted_path[r], messages[r], execution_log[r], test_code[r], result[r]>>

\* what request r reads of the machine: the files of its directory and the
\* packages of the interpreter its commands run with
ReadBy(r) ==
  [files |-> [p \in {q \in HostPaths : IsPrefix(Root(r), q)} |-> host.files[p]],
   packages |-> host.packages]

\* C29: two requests running interleaved share no mutable state: a tool
\* operation of one request (a file write, a command, an installation of a
\* dependency with the host interpreter) changes neither the directory,
\* conversation, log, artifact and result of the other request nor anything
\* the other request reads
C29_RequestsIndependent ==
  [][\A r \in Requests :
       iteration'[r] # iteration[r] =>
         /\ OwnedBy(Other(r))' = OwnedBy(Other(r))
         /\ ReadBy(Other(r))' = ReadBy(Other(r))]_vars

\* the part of C29 about what each request owns
C29_OwnStateUntouched ==
  [][\A r \in Requests :
       iteration'[r] # iteration[r] => OwnedBy(Other(r))' = OwnedBy(Other(r))]_vars

(***************************************************************************)
(* C30: termination                                                        *)
(***************************************************************************)
\* C30: every run terminates with a result: every external call of the loop
\* returns a response or a failure, and the loop reaches its return after at
\* most max_iterations engine requests
C30_EveryRunReturns ==
  /\ <>(pc = "done" /\ result # NoResult)
  /\ [](engine_calls <= max_iterations)

(***************************************************************************)
(* C31: cancellation                                                       *)
(***************************************************************************)
\* a tool call that starts a process or an HTTP request is handed over
StartsExternalCall ==
  /\ pc = "dispatch"
  /\ pc' = "in_call"
  /\ current'[1].name \in {"execute_code", "run_command", "check_api_endpoint"}

\* C31: once cancellation of the request is asked for, no new engine call and
\* no new subprocess or HTTP call is started; a call already in flight is
\* left to finish
C31_CancelStopsNewCalls ==
  [][cancel_requested =>
       /\ engine_calls' = engine_calls
       /\ ~StartsExternalCall]_vars

\* the part of C31 about the call in flight: it returns as it would have
C31_InFlightFinishes ==
  [][(cancel_requested /\ pc = "in_call" /\ pc' # pc) =>
       (Len(messages') = Len(messages) + 1 /\ current' = <<>>)]_vars

(***************************************************************************)
(* C32: the conversation                                                   *)
(***************************************************************************)
\* sequence a is the beginning of sequence b
Begins(a, b) == Len(a) <= Len(b) /\ SubSeq(b, 1, Len(a)) = a

\* C32: the conversation is append-only and replayed in full: what is sent
\* at an engine call is the whole conversation so far, what was sent at the
\* call before is a beginning of it, and no turn is removed, reordered or
\* changed
C32_ConversationReplayedInFull ==
  [][/\ Begins(messages, messages')
     /\ engine_calls' # engine_calls =>
          (sent_messages' = messages /\ Begins(sent_messages, sent_messages'))]_vars

\* a third engine call was made after two responses with tool calls
C32_Witness ==
  /\ pc \in {"summarize", "done", "dispatch"}
  /\ engine_calls = 3
  /\ Len(sent_messages) >= 6
  /\ sent_messages[Len(sent_messages)].role = "tool"

(***************************************************************************)
(* C33: the final response                                                 *)
(***************************************************************************)
\* the last turn of the conversation is a response without tool calls
FinalReceived ==
  /\ messages # <<>>
  /\ messages[Len(messages)].role = "assistant"
  /\ ~HasToolCalls(messages[Len(messages)])

\* C33: a response of the engine without tool calls is final: the execution
\* log is the same after it as before it, and from then on the run makes no
\* engine call and dispatches no tool
C33_FinalResponseIsFinal ==
  [][/\ (~FinalReceived /\ FinalReceived') => execution_log' = execution_log
     /\ FinalReceived =>
          /\ engine_calls' = engine_calls
          /\ dispatched' = dispatched
          /\ messages' = messages
          /\ execution_log' = execution_log]_vars

\* a run that dispatched tools, then got a final response and returned
C33_Witness ==
  /\ pc = "done"
  /\ FinalReceived
  /\ Len(dispatched) >= 2
  /\ engine_calls >= 2

(***************************************************************************)
(* C34: check_api_endpoint                                                 *)
(***************************************************************************)
\* the arguments are of the advertised types: an absolute URL, a method text,
\* headers and payload absent or an object
EndpointArgumentsTyped ==
  LET f == cf_call.arguments.f
  IN  /\ f.url = "http://localhost:8000/"
      /\ f.method = ABSENT \/ IsStr(f.method)
      /\ f.headers \in {ABSENT, OBJ}
      /\ f.payload \in {ABSENT, OBJ}

\* the method of the call, the default being GET; letter case is not looked at
GivenMethod ==
  LET m == Get(cf_call.arguments.f, "method", "GET")
  IN  IF m = "get" THEN "GET" ELSE m

Responded == cf_call.env.outcome \in {"ok", "fail"}

C34_WitnessRefused ==
  /\ ReturnedFrom("check_api_endpoint")
  /\ EndpointArgumentsTyped
  /\ GivenMethod = "PATCH"
  /\ cf_ret.res.error = "Unsupported HTTP method"

(***************************************************************************)
(* C35: the search path of a command                                       *)
(***************************************************************************)
PathSet == pc = "search_path" /\ cf_ret # NoCall

\* the subdirectories the claim lists: neither a dot-directory nor a noise
\* directory
ListedSubdirectories ==
  {cf_call.cwd \o <<cf_call.listing[i].name>> :
     i \in {j \in 1..Len(cf_call.listing) :
              /\ cf_call.listing[j].isdir
              /\ cf_call.listing[j].name \notin
                   {".git", ".venv", "__pycache__", "node_modules"}}}

\* C35: the search path given to the process lists the working directory
\* first, then each immediate subdirectory that is neither a dot-directory
\* nor a noise directory, then the entries of the search path that was there
\* before, in their order, none of them dropped
C35_SearchPathOrder ==
  PathSet =>
    LET path == cf_ret.PYTHONPATH
        n == Cardinality(ListedSubdirectories)
        m == Len(cf_call.existing)
    IN  /\ Len(path) = 1 + n + m
        /\ path[1] = cf_call.cwd
        /\ {path[i] : i \in 2..(1 + n)} = ListedSubdirectories
        /\ SubSeq(path, 2 + n, 1 + n + m) = cf_call.existing

\* a directory with a package, a dot-directory and a noise directory, and
\* two entries on the path before
C35_Witness ==
  /\ PathSet
  /\ {cf_call.listing[i].name : i \in 1..Len(cf_call.listing)} =
       {"app", ".venv", "node_modules"}
  /\ cf_call.existing = <<"/srv/site", "/opt/lib">>
  /\ Len(cf_ret.PYTHONPATH) = 4

(***************************************************************************)
(* C36, C37: the verdict as a function of the log                          *)
(***************************************************************************)
\* a check_api_endpoint entry that reports success
IsSuccessfulProbe(entry) ==
  /\ "function" \in DOMAIN entry
  /\ entry.function = "check_api_endpoint"
  /\ ResGet(entry.result, "success", FALSE)

\* the verdict the claim gives a log
ClaimedVerdict(log) ==
  IF \E i \in 1..Len(log) : IsTestCommandEntry(log[i])
    THEN \A i \in 1..Len(log) : ~ClassifiedFailed(log[i])
    ELSE \E i \in 1..Len(log) : IsSuccessfulProbe(log[i])

\* C36: the verdict is a function of the log: with a test command in the
\* log, tests_passed is true exactly when no test command is classified
\* failed; without one, exactly when the log holds a successful
\* check_api_endpoint entry (so false for a log that is empty or holds only
\* execute_code entries and other commands)
C36_VerdictIsFunctionOfLog ==
  Classified => (Verdict = ClaimedVerdict(execution_log))

\* the orders of the entries of a log
Reorderings(log) ==
  {[i \in 1..Len(log) |-> log[f[i]]] :
     f \in {g \in [1..Len(log) -> 1..Len(log)] :
              \A i, j \in 1..Len(log) : i # j => g[i] # g[j]}}

VerdictOf(log) ==
  LET execution_result == _summarize_execution_results(log)
  IN  IF IsRaised(execution_result) THEN FALSE ELSE execution_result.tests_passed

\* the part of C36 about the order: every reordering of the entries of a log
\* has the verdict of the log
C36_OrderDoesNotMatter ==
  Classified => \A log \in Reorderings(execution_log) : VerdictOf(log) = Verdict

\* the part of C36 about logs whose commands are all texts
C36_HoldsForTextCommands ==
  (Classified /\ \A i \in 1..Len(execution_log) :
                   IsCommandEntry(execution_log[i]) => IsStr(execution_log[i].command)) =>
    (Verdict = ClaimedVerdict(execution_log))

\* a run_command entry whose command begins with the installer
IsInstallerEntry(entry) ==
  IsCommandEntry(entry) /\ entry.command \in {InstallCommand, InstallTestToolsCommand}

\* C37: a log whose only run_command entries are successful installations of
\* dependencies, with no invocation of a test runner and no HTTP probe, has
\* the verdict tests_passed = false
C37_InstallationAloneDoesNotPass ==
  (/\ Classified
   /\ \E i \in 1..Len(execution_log) : IsInstallerEntry(execution_log[i])
   /\ \A i \in 1..Len(execution_log) :
        LET entry == execution_log[i]
        IN  /\ IsCommandEntry(entry) =>
                 (IsInstallerEntry(entry) /\ ResGet(entry.result, "success", FALSE))
            /\ ~("function" \in DOMAIN entry /\ entry.function = "check_api_endpoint")) =>
    ~Verdict

\* the part of C37 for installations whose text holds no test keyword
C37_HoldsWithoutTestKeyword ==
  (/\ Classified
   /\ \E i \in 1..Len(execution_log) : IsInstallerEntry(execution_log[i])
   /\ \A i \in 1..Len(execution_log) :
        LET entry == execution_log[i]
        IN  /\ IsCommandEntry(entry) =>
                 (entry.command = InstallCommand /\ ResGet(entry.result, "success", FALSE))
            /\ ~("function" \in DOMAIN entry /\ entry.function = "check_api_endpoint")) =>
    ~Verdict

(***************************************************************************)
(* C38: the temporary file of execute_code                                 *)
(***************************************************************************)
\* C38: execute_code for a language of the JavaScript family leaves the
\* working directory as it found it: after every outcome (exit 0, another
\* exit status, timeout, failure to start the process) the file temp_exec.js
\* it created is gone
C38_TemporaryFileRemoved ==
  (/\ ReturnedFrom("execute_code")
   /\ cf_call.arguments.f.language \in {"javascript", "typescript", "js"}) =>
    "temp_left" \notin cf_ret.ops

\* the part of C38 for a process that ran to its end
C38_RemovedAfterExit ==
  (/\ ReturnedFrom("execute_code")
   /\ cf_call.arguments.f.language \in {"javascript", "typescript", "js"}
   /\ IsStr(cf_call.arguments.f.code)
   /\ cf_call.env.outcome \in {"ok", "fail"}) =>
    "temp_left" \notin cf_ret.ops

(***************************************************************************)
(* C39: cleanup of a request                                               *)
(***************************************************************************)
Completed == pc = "completed"
StartedExtraction == host.directory # "none"

\* C39: on every exit path of a request that started extraction (normal
\* response, HTTP error, unexpected exception, failure inside test
\* generation) the extracted directory and the uploaded archive have been
\* removed when the request completes
C39_RemovedOnEveryExit ==
  (Completed /\ StartedExtraction) =>
    (host.directory = "removed" /\ host.archive = "removed")

\* the part of C39 about the exit paths: on each of them the removal of the
\* directory was attempted and the archive is gone; the directory is left
\* only when its removal was refused
C39_CleanupAttemptedOnEveryExit ==
  (Completed /\ StartedExtraction) =>
    /\ host.archive = "removed"
    /\ extracted_path = FALSE
    /\ host.directory = "present" => ~host.removable

(***************************************************************************)
(* C40: the advertised schema and the dispatcher                           *)
(***************************************************************************)
\* call_function answered with the given error text
RejectedAs(text) == "error" \in DOMAIN cf_ret.res /\ cf_ret.res.error = text

\* the call found its name in the dispatch table
Dispatched == Returned /\ ~RejectedAs("Unknown function")

\* the call gives, for an argument the schema constrains by an enum, one of
\* the values the enum lists
GivesPermitted(k) ==
  /\ cf_call.arguments.kind = "mapping"
  /\ cf_call.arguments.f[k] \in SchemaEnum(cf_call.name, k)

RejectedAsUnsupported ==
  RejectedAs("Unsupported HTTP method") \/ RejectedAs("Unsupported language")

\* C40: the schema and the dispatcher agree: a call of an advertised name is
\* dispatched, a dispatched call has an advertised name, and a call that
\* gives a value the schema's enum permits (an HTTP method, a language) is
\* not rejected as unsupported
C40_SchemaAndDispatcherAgree ==
  Returned =>
    /\ cf_call.name \in SchemaNames <=> Dispatched
    /\ (GivesPermitted("method") \/ GivesPermitted("language")) =>
         ~RejectedAsUnsupported

\* the parts of C40 that hold: every advertised name is dispatched, and
\* every language of the enum is accepted by execute_code
C40_AdvertisedNamesAndLanguages ==
  Returned =>
    /\ cf_call.name \in SchemaNames => Dispatched
    /\ GivesPermitted("language") => ~RejectedAsUnsupported

\* the parts of C40 that fail, apart: a dispatched name outside the schema
C40_NameOutsideSchemaDispatched ==
  Dispatched /\ cf_call.name \notin SchemaNames

\* ... and a method of the enum that check_api_endpoint refuses
C40_PermittedMethodRefused ==
  Returned /\ GivesPermitted("method") /\ RejectedAs("Unsupported HTTP method")

====
